---- MODULE Spec2Model ----
(***************************************************************************)
(* A model of the review-service: the event store (save_message and        *)
(* list_delivered_by_assignment over the 'submission-consegnate'           *)
(* collection), the distributor (build_verified_assignments), the review   *)
(* ledger (ReviewService over the 'reviews' collection), the event         *)
(* ingestor (ReviewSubmissionConsumer: start, stop, _on_message) and the   *)
(* report publisher (ReviewPublisher: connect, close, _ensure_ready,       *)
(* publish_review_report).                                                 *)
(*                                                                         *)
(* Encoding of Python values:                                              *)
(*   - student ids "s-1", "s-2", ... are the numbers 1, 2, ...; sorted()   *)
(*     on them is the numeric order; 0 is a missing or empty student id    *)
(*     (falsy in Python);                                                  *)
(*   - assignment ids and submission ids are strings; "" is the empty      *)
(*     string (falsy in Python);                                           *)
(*   - Absent marks a key that a payload or a stored document does not     *)
(*     have.                                                               *)
(*   - a coroutine is cut at its awaits: one action is the return (or the  *)
(*     exception) of an awaited call together with the code that follows   *)
(*     up to the next await; whether an awaited call of the broker or the  *)
(*     store returns or raises is a choice of the environment.             *)
(***************************************************************************)
EXTENDS Integers, Sequences, FiniteSets, TLC

VARIABLES
    col,          \* the 'submission-consegnate' collection: a set of documents
    now,          \* the clock read by save_message (datetime.now)
    calls,        \* per worker: the save_message call it is running
    lastApplied,  \* per key: the update_doc of the last write the store applied
    dist,         \* the build_verified_assignments call: request and outcome
    reviews,      \* the 'reviews' collection: a set of documents
    resp,         \* the last ReviewService operation: caller, arguments, outcome
    consumer,     \* the ReviewSubmissionConsumer object: handles and settings
    msgs,         \* per inbound message: its body and the position of _on_message
    boot,         \* the start() or stop() call of the consumer in progress
    pub,          \* the ReviewPublisher object: handles and lock
    broker,       \* the broker's side of the publisher's connections
    ptasks        \* per coroutine: its operation on the publisher

vars == <<col, now, calls, lastApplied, dist, reviews, resp, consumer, msgs,
          boot, pub, broker, ptasks>>

\* What the actions of one component leave alone in the others.
ledgerVars == <<reviews, resp>>
pubVars == <<pub, broker, ptasks>>
brokerVars == <<consumer, msgs, boot, pubVars>>
outsideStore == <<dist, ledgerVars, brokerVars>>
outsideDist == <<ledgerVars, brokerVars>>
outsideLedger == <<col, now, calls, lastApplied, dist, brokerVars>>
storeVars == <<col, now, calls, lastApplied>>
outsideIngest == <<now, calls, lastApplied, dist, ledgerVars, boot, pubVars>>
outsideBoot == <<storeVars, dist, ledgerVars, msgs, pubVars>>
outsidePub == <<storeVars, dist, ledgerVars, consumer, msgs, boot>>

----------------------------------------------------------------------------
(* Bounds                                                                  *)

NumStudents == 3
NumWorkers == 2
MaxCalls == 3
MaxManual == 3
MaxRid == 1
MaxPairs == 2
NumManual == 2
MaxMsgs == 2
MaxDeliveries == 2
MaxRetries == 2
NumTasks == 2
MaxOps == 3
MaxConns == 3
MaxChans == 3
MaxFaults == 1

Students == 1..NumStudents
Workers == 1..NumWorkers

Absent == "<absent>"
Assignments == {"A1"}
SubmissionIds == {"", "SUB-1", "SUB-2"}
DeliveredAts == {"t1"}

Keys == Assignments \X Students

NoEvent ==
    [assignmentId |-> "", studentId |-> 0, submissionId |-> Absent,
     deliveredAt |-> Absent, receivedAt |-> 0]

----------------------------------------------------------------------------
(* Event store: MongoSubmissionDeliveredRepository                         *)

\* The inbound payloads: any mapping; assignmentId / studentId may be missing
\* or empty, submissionId and the extra field deliveredAt may be missing.
Payloads ==
    [assignmentId : Assignments \cup {""},
     studentId    : 0..NumStudents,
     submissionId : SubmissionIds \cup {Absent},
     deliveredAt  : DeliveredAts \cup {Absent}]

\* if not assignment_id or not student_id: raise ValueError
PayloadInvalid(p) == p.assignmentId = "" \/ p.studentId = 0

\* update_doc = {**payload, "receivedAt": now}
UpdateDoc(p, t) ==
    [assignmentId |-> p.assignmentId, studentId |-> p.studentId,
     submissionId |-> p.submissionId, deliveredAt |-> p.deliveredAt,
     receivedAt |-> t]

KeyOf(d) == <<d.assignmentId, d.studentId>>

\* filter={"assignmentId": assignment_id, "studentId": student_id}
Matching(c, upd) == {d \in c : KeyOf(d) = KeyOf(upd)}

\* {"$set": update_doc} on one document: the keys of update_doc are written,
\* every other key of the document stays as it is.
ApplySet(d, upd) ==
    [assignmentId |-> upd.assignmentId, studentId |-> upd.studentId,
     submissionId |-> IF upd.submissionId # Absent THEN upd.submissionId
                      ELSE d.submissionId,
     deliveredAt  |-> IF upd.deliveredAt # Absent THEN upd.deliveredAt
                      ELSE d.deliveredAt,
     receivedAt   |-> upd.receivedAt]

\* update_one modifies the (first) matching document.
UpdateMatching(c, upd) ==
    IF Matching(c, upd) = {} THEN c
    ELSE LET d == CHOOSE x \in Matching(c, upd) : TRUE
         IN (c \ {d}) \cup {ApplySet(d, upd)}

\* The collection without the unique index: nothing is refused.
UniqueIndexRefuses_NoIndex(c, upd) == FALSE

\* The unique index uniq_assignment_student of ensure_indexes: an insert of a
\* second document with the same (assignmentId, studentId) is refused.
UniqueIndexRefuses(c, upd) == Matching(c, upd) # {}

\* The document an upsert inserts: the filter's fields and the $set fields.
UpsertedDoc(upd) == upd

\* The outcome told the wrong way round: True for an update.
SaveResult_Inverted(inserted) == IF inserted THEN "updated" ELSE "created"

\* return res.upserted_id is not None (line 70): True ("created") for an
\* insert, False ("updated") for an update.
SaveResult(inserted) == IF inserted THEN "created" ELSE "updated"

IdleCall ==
    [pc |-> "idle", upd |-> NoEvent, res |-> "none",
     existed |-> FALSE, alone |-> FALSE, raced |-> FALSE, applied |-> FALSE]

InFlight(w) == calls[w].pc \in {"upsert", "insert", "retry"}

\* save_message, lines 49-61: read the clock, validate, build update_doc. A
\* worker takes its next message once its previous call has returned. The
\* fields existed/alone/raced/applied record the history of the call.
Call(w, p) ==
    /\ calls[w].pc \in {"idle", "done"}
    /\ now < MaxCalls
    /\ now' = now + 1
    /\ LET upd == UpdateDoc(p, now)
       IN IF PayloadInvalid(p)
          THEN calls' = [calls EXCEPT ![w] =
                   [IdleCall EXCEPT !.pc = "done", !.upd = upd,
                                    !.res = "ValueError"]]
          ELSE calls' = [v \in Workers |->
                   IF v = w
                   THEN [IdleCall EXCEPT
                           !.pc = "upsert", !.upd = upd,
                           !.existed = (Matching(col, upd) # {}),
                           !.alone = (\A u \in Workers \ {w} :
                                        ~(InFlight(u) /\
                                          KeyOf(calls[u].upd) = KeyOf(upd)))]
                   ELSE IF InFlight(v) /\ KeyOf(calls[v].upd) = KeyOf(upd)
                        THEN [calls[v] EXCEPT !.alone = FALSE]
                        ELSE calls[v]]
    /\ UNCHANGED <<col, lastApplied, outsideStore>>

\* update_one(filter, {"$set": update_doc}, upsert=True), lines 64-70, when a
\* document matches: it is updated in place, upserted_id is None, and
\* save_message returns False.
UpsertMatch(w) ==
    /\ calls[w].pc = "upsert"
    /\ Matching(col, calls[w].upd) # {}
    /\ col' = UpdateMatching(col, calls[w].upd)
    /\ lastApplied' = [lastApplied EXCEPT ![KeyOf(calls[w].upd)] = calls[w].upd]
    /\ calls' = [calls EXCEPT ![w].pc = "done", ![w].res = SaveResult(FALSE),
                              ![w].applied = TRUE]
    /\ UNCHANGED <<now, outsideStore>>

\* The same update_one when no document matches: the server goes on to insert,
\* and another writer may insert the key before it does.
UpsertMiss(w) ==
    /\ calls[w].pc = "upsert"
    /\ Matching(col, calls[w].upd) = {}
    /\ calls' = [calls EXCEPT ![w].pc = "insert"]
    /\ UNCHANGED <<col, now, lastApplied, outsideStore>>

\* The insert half of the upsert: the document is inserted, upserted_id is set
\* and save_message returns True (line 70).
UpsertInsert(w) ==
    /\ calls[w].pc = "insert"
    /\ ~UniqueIndexRefuses(col, calls[w].upd)
    /\ col' = col \cup {UpsertedDoc(calls[w].upd)}
    /\ lastApplied' = [lastApplied EXCEPT ![KeyOf(calls[w].upd)] = calls[w].upd]
    /\ calls' = [calls EXCEPT ![w].pc = "done", ![w].res = SaveResult(TRUE),
                              ![w].applied = TRUE]
    /\ UNCHANGED <<now, outsideStore>>

\* The insert half refused by the unique index: DuplicateKeyError (line 72).
UpsertDuplicate(w) ==
    /\ calls[w].pc = "insert"
    /\ UniqueIndexRefuses(col, calls[w].upd)
    /\ calls' = [calls EXCEPT ![w].pc = "retry", ![w].raced = TRUE]
    /\ UNCHANGED <<col, now, lastApplied, outsideStore>>

\* except DuplicateKeyError: update_one(..., upsert=False); return False
\* (lines 72-80).
RetryUpdate(w) ==
    /\ calls[w].pc = "retry"
    /\ col' = UpdateMatching(col, calls[w].upd)
    /\ lastApplied' = IF Matching(col, calls[w].upd) # {}
                      THEN [lastApplied EXCEPT ![KeyOf(calls[w].upd)] = calls[w].upd]
                      ELSE lastApplied
    /\ calls' = [calls EXCEPT ![w].pc = "done", ![w].res = "updated",
                              ![w].applied = (Matching(col, calls[w].upd) # {})]
    /\ UNCHANGED <<now, outsideStore>>

----------------------------------------------------------------------------
(* Distributor: DistributorService                                         *)

Range(f) == {f[i] : i \in DOMAIN f}

\* The ids in decreasing order.
RECURSIVE SortedSeq_Descending(_)
SortedSeq_Descending(S) ==
    IF S = {} THEN <<>>
    ELSE LET m == CHOOSE x \in S : \A y \in S : x >= y
         IN <<m>> \o SortedSeq_Descending(S \ {m})

\* sorted(S) for a set of student ids.
RECURSIVE SortedSeq(_)
SortedSeq(S) ==
    IF S = {} THEN <<>>
    ELSE LET m == CHOOSE x \in S : \A y \in S : x <= y
         IN <<m>> \o SortedSeq(S \ {m})

\* list_delivered_by_assignment: the documents of the assignment, those without
\* a submissionId or a studentId left out.
ListDelivered(c, a) ==
    {d \in c : d.assignmentId = a /\ d.submissionId # Absent /\ d.studentId # 0}

\* students = set(student_to_submission.keys())
StudentsOf(submissions) == {d.studentId : d \in submissions}

\* student_to_submission = {s.studentId: s.submissionId for s in submissions};
\* the unique index leaves one document per student.
StudentToSubmission(submissions) ==
    [s \in StudentsOf(submissions) |->
        (CHOOSE d \in submissions : d.studentId = s).submissionId]

\* submission_ids = {s.submissionId for s in submissions}
SubmissionIdsOf(submissions) == {d.submissionId : d \in submissions}

NoResult ==
    [kind |-> "none", reason |-> "", list |-> <<>>, rotated |-> FALSE,
     missing |-> <<>>, errors |-> <<>>]

\* return <list>
Returned(list, rotated) ==
    [NoResult EXCEPT !.kind = "ok", !.list = list, !.rotated = rotated]

\* raise DistributionError(...)
DistributionError(reason, missing, errors) ==
    [NoResult EXCEPT !.kind = "DistributionError", !.reason = reason,
                     !.missing = missing, !.errors = errors]

\* assert ..., "Derangement fallito"
AssertionError == [NoResult EXCEPT !.kind = "AssertionError"]

SelfReview(a) ==
    [what |-> "self", reviewer |-> a.reviewer, submissionId |-> a.submissionId]

NotFound(a) ==
    [what |-> "unknown", reviewer |-> 0, submissionId |-> a.submissionId]

\* own_sub = student_to_submission.get(a.reviewer);
\* if own_sub and a.submissionId == own_sub
IsSelfReview(a, s2s) ==
    /\ a.reviewer \in DOMAIN s2s
    /\ s2s[a.reviewer] # ""
    /\ a.submissionId = s2s[a.reviewer]

\* The errors list of _validate_manual, in the order it is appended to.
RECURSIVE ManualErrors(_, _, _)
ManualErrors(manual, s2s, subIds) ==
    IF manual = <<>> THEN <<>>
    ELSE LET a == Head(manual)
         IN (IF IsSelfReview(a, s2s) THEN <<SelfReview(a)>> ELSE <<>>)
            \o (IF a.submissionId \notin subIds THEN <<NotFound(a)>> ELSE <<>>)
            \o ManualErrors(Tail(manual), s2s, subIds)

\* The validation without its last check: a repeated reviewer passes.
ValidateManual_NoDuplicateCheck(manual, students, s2s, subIds) ==
    LET reviewers == [i \in 1..Len(manual) |-> manual[i].reviewer]
        diff_missing == students \ Range(reviewers)
        errors == ManualErrors(manual, s2s, subIds)
    IN IF diff_missing # {}
       THEN DistributionError("missing", SortedSeq(diff_missing), <<>>)
       ELSE IF errors # <<>>
       THEN DistributionError("invalid_pairs", <<>>, errors)
       ELSE Returned(manual, FALSE)

ValidateManual(manual, students, s2s, subIds) ==
    LET reviewers == [i \in 1..Len(manual) |-> manual[i].reviewer]
        diff_missing == students \ Range(reviewers)
        errors == ManualErrors(manual, s2s, subIds)
    IN IF diff_missing # {}
       THEN DistributionError("missing", SortedSeq(diff_missing), <<>>)
       ELSE IF errors # <<>>
       THEN DistributionError("invalid_pairs", <<>>, errors)
       ELSE IF Cardinality(Range(reviewers)) # Len(reviewers)
       THEN DistributionError("duplicate_reviewer", <<>>, <<>>)
       ELSE Returned(manual, FALSE)

\* subs_perm[i], subs_perm[j] = subs_perm[j], subs_perm[i]
Swap(q, i, j) == [q EXCEPT ![i] = q[j], ![j] = q[i]]

\* for i in range(n - 1, 0, -1): j = rng.randrange(0, i); swap(i, j).
\* Positions are 1-based here: k runs from n down to 2 and rnd[k] < k.
RECURSIVE Shuffle(_, _, _)
Shuffle(q, k, rnd) ==
    IF k < 2 THEN q ELSE Shuffle(Swap(q, k, rnd[k]), k - 1, rnd)

\* The choices of a plain Fisher-Yates shuffle: j may be i itself.
RandomChoices_Inclusive ==
    {f \in [2..NumStudents -> 1..NumStudents] : \A k \in 2..NumStudents : f[k] <= k}

\* The outcomes of the calls of rng.randrange in one shuffle.
RandomChoices ==
    {f \in [2..NumStudents -> 1..NumStudents] : \A k \in 2..NumStudents : f[k] < k}

\* The manual path draws nothing from rng.
NoChoices == [k \in 2..NumStudents |-> 1]

\* any(subs_perm[i] == subs[i] for i in range(n))
HasFixedPoint(q, subs) == \E i \in 1..Len(subs) : q[i] = subs[i]

\* subs_perm[1:] + subs_perm[:1]
RotateOne(q) == IF q = <<>> THEN q ELSE Tail(q) \o <<Head(q)>>

\* The automatic distribution without the check for a single student.
AutoDistribute_NoSingleCheck(students, s2s, rnd) ==
    LET reviewers == SortedSeq(students)
        n == Len(reviewers)
        subs == [i \in 1..n |-> s2s[reviewers[i]]]
        shuffled == Shuffle(subs, n, rnd)
        rotated == HasFixedPoint(shuffled, subs)
        subs_perm == IF rotated THEN RotateOne(shuffled) ELSE shuffled
        result == [i \in 1..n |->
                     [reviewer |-> reviewers[i], submissionId |-> subs_perm[i]]]
    IN IF \E i \in 1..n : s2s[result[i].reviewer] = result[i].submissionId
       THEN AssertionError
       ELSE Returned(result, rotated)

AutoDistribute(students, s2s, rnd) ==
    LET reviewers == SortedSeq(students)
        n == Len(reviewers)
        subs == [i \in 1..n |-> s2s[reviewers[i]]]
        shuffled == Shuffle(subs, n, rnd)
        rotated == HasFixedPoint(shuffled, subs)
        subs_perm == IF rotated THEN RotateOne(shuffled) ELSE shuffled
        result == [i \in 1..n |->
                     [reviewer |-> reviewers[i], submissionId |-> subs_perm[i]]]
    IN IF n = 1
       THEN DistributionError("single_student", <<>>, <<>>)
       ELSE IF \E i \in 1..n : s2s[result[i].reviewer] = result[i].submissionId
       THEN AssertionError
       ELSE Returned(result, rotated)

BuildVerifiedAssignments(req, c, rnd) ==
    LET submissions == ListDelivered(c, req.assignmentId)
        s2s == StudentToSubmission(submissions)
        subIds == SubmissionIdsOf(submissions)
        students == StudentsOf(submissions)
    IN IF submissions = {}
       THEN DistributionError("no_submissions", <<>>, <<>>)
       ELSE IF req.automatic_mode
       THEN AutoDistribute(students, s2s, rnd)
       ELSE IF req.lista_assegnazioni = <<>>
       THEN DistributionError("manual_required", <<>>, <<>>)
       ELSE ValidateManual(req.lista_assegnazioni, students, s2s, subIds)

\* The manual lists: up to MaxManual pairs, the reviewer any of the students
\* that deliver in the manual specification or one student more, who never
\* delivers.
ManualStudents == 1..NumManual

ManualPairs == [reviewer : 1..(NumManual + 1), submissionId : SubmissionIds]

ManualLists == UNION {[1..n -> ManualPairs] : n \in 0..MaxManual}

ManualRequests ==
    {[assignmentId |-> "A1", automatic_mode |-> FALSE, lista_assegnazioni |-> l] :
        l \in ManualLists}

\* The automatic requests, and the requests of either mode for an assignment
\* nobody delivered to.
AutoRequests ==
    {[assignmentId |-> "A1", automatic_mode |-> TRUE, lista_assegnazioni |-> <<>>]}
    \cup {[assignmentId |-> "A2", automatic_mode |-> m, lista_assegnazioni |-> <<>>] :
            m \in BOOLEAN}

NoRequest ==
    [assignmentId |-> "", automatic_mode |-> FALSE, lista_assegnazioni |-> <<>>]

IdleDist == [pc |-> "idle", req |-> NoRequest, res |-> NoResult]

\* save_message run from call to return with no other writer in between.
SaveMessage(c, upd) ==
    IF Matching(c, upd) # {} THEN UpdateMatching(c, upd)
    ELSE c \cup {UpsertedDoc(upd)}

\* A "submission delivered" event is ingested between two requests.
Deliver(p) ==
    /\ dist.pc = "idle"
    /\ ~PayloadInvalid(p)
    /\ col' = SaveMessage(col, UpdateDoc(p, now))
    /\ UNCHANGED <<now, calls, lastApplied, dist, outsideDist>>

\* build_verified_assignments: the awaited read of the deliveries and the
\* computation on them, which never suspends.
Build(req) ==
    /\ dist.pc = "idle"
    /\ \E rnd \in (IF req.automatic_mode THEN RandomChoices ELSE {NoChoices}) :
          dist' = [pc |-> "done", req |-> req,
                   res |-> BuildVerifiedAssignments(req, col, rnd)]
    /\ UNCHANGED <<col, now, calls, lastApplied, outsideDist>>

\* The caller takes the list or the error.
BuildReturn ==
    /\ dist.pc = "done"
    /\ dist' = IdleDist
    /\ UNCHANGED <<col, now, calls, lastApplied, outsideDist>>

----------------------------------------------------------------------------
(* Review ledger: ReviewService over MongoReviewRepository                 *)

\* user.role is a single value or a list/tuple/set of values.
Str(v) == [kind |-> "str", val |-> v, items |-> {}]

Coll(S) == [kind |-> "coll", val |-> "", items |-> S]

\* role == "teacher" or (isinstance(role, (list, tuple, set)) and "teacher" in role)
IsTeacher(role) ==
    \/ role.kind = "str" /\ role.val = "teacher"
    \/ role.kind = "coll" /\ "teacher" \in role.items

\* Any collection passes, whatever it holds.
IsStudent_AnyCollection(role) ==
    (role.kind = "str" /\ role.val = "student") \/ role.kind = "coll"

\* role == "student" or (isinstance(role, (list, tuple, set)) and "student" in role)
IsStudent(role) ==
    \/ role.kind = "str" /\ role.val = "student"
    \/ role.kind = "coll" /\ "student" \in role.items

\* create_review_id: f"rv-{random.randint(0, 99999):05d}", here one of
\* MaxRid + 1 values.
ReviewIds == 0..MaxRid

\* No review id: a value outside ReviewIds.
NoReviewId == MaxRid + 1

\* valutazione_template = [{"criterio": r.criterio, "punteggio": -1} for r in data.rubrica]
ValutazioneTemplate(rubrica) ==
    [i \in 1..Len(rubrica) |-> [criterio |-> rubrica[i], punteggio |-> -1]]

\* review_docs of start_process; the documents carry no processId. createdAt
\* and deadline are left out.
ReviewDocs(aid, lista, rubrica) ==
    [i \in 1..Len(lista) |->
        [assignmentId |-> aid, reviewerId |-> lista[i].reviewer,
         submissionId |-> lista[i].submissionId, stato |-> "pending",
         valutazione |-> ValutazioneTemplate(rubrica), processId |-> Absent]]

\* prepared.append({"reviewId": rid, ..., **d}) with rid = create_review_id()
Prepared(docs, rids) ==
    [i \in 1..Len(docs) |->
        [reviewId |-> rids[i], assignmentId |-> docs[i].assignmentId,
         reviewerId |-> docs[i].reviewerId, submissionId |-> docs[i].submissionId,
         stato |-> docs[i].stato, valutazione |-> docs[i].valutazione,
         processId |-> docs[i].processId]]

\* insert_many (ordered) under the unique index on reviewId: the documents are
\* inserted one after the other up to the first whose reviewId is taken, where
\* it stops with a BulkWriteError.
RECURSIVE InsertMany(_, _)
InsertMany(c, docs) ==
    IF docs = <<>> THEN [col |-> c, ok |-> TRUE]
    ELSE IF \E d \in c : d.reviewId = Head(docs).reviewId
    THEN [col |-> c, ok |-> FALSE]
    ELSE InsertMany(c \cup {Head(docs)}, Tail(docs))

\* The stato filter alone: the reviews of every student.
ForStudent_AnyReviewer(c, student_id, stato) ==
    {d \in c : stato # "" => d.stato = stato}

\* for_student: {"reviewerId": student_id}, and "stato" when a filter is given
\* (if stato: a None or empty filter selects every stato).
ForStudent(c, student_id, stato) ==
    {d \in c : d.reviewerId = student_id /\ (stato # "" => d.stato = stato)}

\* Found by the reviewer alone: any review of the student.
ByIdForStudent_AnyReview(c, review_id, student_id) ==
    {d \in c : d.reviewerId = student_id}

\* Found by reviewId alone, whoever the reviewer is.
ByIdForStudent_AnyOwner(c, review_id, student_id) ==
    {d \in c : d.reviewId = review_id}

\* by_id_for_student: find_one({"reviewId": review_id, "reviewerId": student_id})
ByIdForStudent(c, review_id, student_id) ==
    {d \in c : d.reviewId = review_id /\ d.reviewerId = student_id}

\* The scores are written and the stato is left as it was.
UpdateScores_KeepsStato(c, review_id, valutazione) ==
    LET hit == {d \in c : d.reviewId = review_id}
    IN IF hit = {} THEN c
       ELSE LET d == CHOOSE x \in hit : TRUE
            IN (c \ {d}) \cup {[d EXCEPT !.valutazione = valutazione]}

\* A second submit opens the review again.
UpdateScores_Reopens(c, review_id, valutazione) ==
    LET hit == {d \in c : d.reviewId = review_id}
    IN IF hit = {} THEN c
       ELSE LET d == CHOOSE x \in hit : TRUE
            IN (c \ {d}) \cup
               {[d EXCEPT !.valutazione = valutazione,
                          !.stato = IF d.stato = "complete" THEN "pending"
                                    ELSE "complete"]}

\* update_scores: update_one({"reviewId": review_id}, {"$set": {valutazione,
\* stato: "complete", updatedAt}}); updatedAt is left out.
UpdateScores(c, review_id, valutazione) ==
    LET hit == {d \in c : d.reviewId = review_id}
    IN IF hit = {} THEN c
       ELSE LET d == CHOOSE x \in hit : TRUE
            IN (c \ {d}) \cup {[d EXCEPT !.valutazione = valutazione,
                                         !.stato = "complete"]}

\* res.matched_count == 1
UpdateMatched(c, review_id) == {d \in c : d.reviewId = review_id} # {}

\* by_assignment_for_teacher: find({"assignmentId": assignment_id})
ByAssignment(c, aid) == {d \in c : d.assignmentId = aid}

\* Review(**d): the fields of the Review schema; a processId is not among them.
ToReview(d) == [d EXCEPT !.processId = Absent]

NoCaller == [user_id |-> 0, role |-> Str("")]

NoResp ==
    [op |-> "none", caller |-> NoCaller, kind |-> "none",
     assignmentId |-> "", lista |-> <<>>, rubrica |-> <<>>,
     reviewId |-> NoReviewId, stato |-> "", valutazione |-> <<>>,
     retId |-> "", retBool |-> FALSE, retDocs |-> {}]

\* start_process: the role check, the drafts, the bulk create with the review
\* ids rids drawn by create_review_id, and the returned identifier.
StartProcess(caller, aid, lista, rubrica, rids) ==
    LET call == [NoResp EXCEPT !.op = "start_process", !.caller = caller,
                               !.assignmentId = aid, !.lista = lista,
                               !.rubrica = rubrica]
        created == InsertMany(reviews, Prepared(ReviewDocs(aid, lista, rubrica), rids))
    IN /\ IF ~IsTeacher(caller.role)
          THEN /\ resp' = [call EXCEPT !.kind = "PermissionError"]
               /\ reviews' = reviews
          ELSE /\ reviews' = created.col
               /\ resp' = IF created.ok
                          THEN [call EXCEPT !.kind = "ok", !.retId = aid]
                          ELSE [call EXCEPT !.kind = "BulkWriteError"]
       /\ UNCHANGED outsideLedger

ListMyReviews(caller, stato) ==
    LET call == [NoResp EXCEPT !.op = "list_my_reviews", !.caller = caller,
                               !.stato = stato]
    IN /\ resp' = IF ~IsStudent(caller.role)
                  THEN [call EXCEPT !.kind = "PermissionError"]
                  ELSE [call EXCEPT !.kind = "ok",
                          !.retDocs = {ToReview(d) :
                                         d \in ForStudent(reviews, caller.user_id, stato)}]
       /\ UNCHANGED <<reviews, outsideLedger>>

GetMyReview(caller, review_id) ==
    LET call == [NoResp EXCEPT !.op = "get_my_review", !.caller = caller,
                               !.reviewId = review_id]
    IN /\ resp' = IF ~IsStudent(caller.role)
                  THEN [call EXCEPT !.kind = "PermissionError"]
                  ELSE [call EXCEPT !.kind = "ok",
                          !.retDocs = {ToReview(d) :
                                         d \in ByIdForStudent(reviews, review_id,
                                                              caller.user_id)}]
       /\ UNCHANGED <<reviews, outsideLedger>>

SubmitReview(caller, review_id, valutazione) ==
    LET call == [NoResp EXCEPT !.op = "submit_review", !.caller = caller,
                               !.reviewId = review_id, !.valutazione = valutazione]
    IN /\ IF ~IsStudent(caller.role)
          THEN /\ resp' = [call EXCEPT !.kind = "PermissionError"]
               /\ reviews' = reviews
          ELSE IF ByIdForStudent(reviews, review_id, caller.user_id) = {}
          THEN /\ resp' = [call EXCEPT !.kind = "ok", !.retBool = FALSE]
               /\ reviews' = reviews
          ELSE /\ reviews' = UpdateScores(reviews, review_id, valutazione)
               /\ resp' = [call EXCEPT !.kind = "ok",
                                       !.retBool = UpdateMatched(reviews, review_id)]
       /\ UNCHANGED outsideLedger

ListByAssignmentForTeacher(caller, aid) ==
    LET call == [NoResp EXCEPT !.op = "list_by_assignment_for_teacher",
                               !.caller = caller, !.assignmentId = aid]
    IN /\ resp' = IF ~IsTeacher(caller.role)
                  THEN [call EXCEPT !.kind = "PermissionError"]
                  ELSE [call EXCEPT !.kind = "ok",
                          !.retDocs = {ToReview(d) : d \in ByAssignment(reviews, aid)}]
       /\ UNCHANGED <<reviews, outsideLedger>>

\* The callers: user ids 1 and 2 are the reviewers, 9 is the teacher "t-1".
Callers ==
    {[user_id |-> 9, role |-> Str("teacher")],
     [user_id |-> 1, role |-> Str("student")],
     [user_id |-> 2, role |-> Str("student")],
     [user_id |-> 1, role |-> Coll({"student", "teacher"})],
     [user_id |-> 2, role |-> Coll({"teacher"})],
     [user_id |-> 2, role |-> Str("admin")],
     [user_id |-> 9, role |-> Coll({})]}

\* The validated pairs handed to start_process: each reviewer with the
\* submission of the other.
LedgerPairs ==
    {[reviewer |-> 1, submissionId |-> "SUB-2"],
     [reviewer |-> 2, submissionId |-> "SUB-1"]}

LedgerLists == UNION {[1..n -> LedgerPairs] : n \in 1..MaxPairs}

Rubrics == {<<"Chiarezza">>, <<"Chiarezza", "Correttezza">>}

\* The scores a student submits: for both criteria, or for one only.
Valutazioni ==
    {<<[criterio |-> "Chiarezza", punteggio |-> 8],
       [criterio |-> "Correttezza", punteggio |-> 9]>>,
     <<[criterio |-> "Chiarezza", punteggio |-> 7]>>}

----------------------------------------------------------------------------
(* Event ingestor: ReviewSubmissionConsumer                                *)

Messages == 1..MaxMsgs

\* requeue_on_error: bool = False
DefaultRequeueOnError == FALSE

\* __init__: the settings are kept and every handle is None. A connection or
\* channel handle is "none" (None), "open" or "closed" (is_closed).
NewConsumer(requeue_on_error) ==
    [requeue_on_error |-> requeue_on_error,
     conn |-> "none", channel |-> "none",
     exchange |-> FALSE, queue |-> FALSE, consumer_tag |-> FALSE]

\* The payloads the broker carries in well-formed bodies: a first delivery, a
\* second event for the same key, and one without studentId.
BrokerPayloads ==
    {[assignmentId |-> "A1", studentId |-> 1, submissionId |-> "SUB-1", deliveredAt |-> "t1"],
     [assignmentId |-> "A1", studentId |-> 1, submissionId |-> "SUB-2", deliveredAt |-> Absent],
     [assignmentId |-> "A1", studentId |-> 0, submissionId |-> "SUB-2", deliveredAt |-> Absent]}

NoPayload ==
    [assignmentId |-> "", studentId |-> 0, submissionId |-> Absent,
     deliveredAt |-> Absent]

\* message.body: bytes that are not UTF-8, text that is not JSON, JSON that is
\* not an object (a list, a number), or a JSON object.
Bodies ==
    {[kind |-> k, payload |-> NoPayload] : k \in {"not_utf8", "not_json", "not_object"}}
    \cup {[kind |-> "object", payload |-> p] : p \in BrokerPayloads}

NoBody == [kind |-> "none", payload |-> NoPayload]

\* One inbound message. settles is the sequence of the calls of message.ack()
\* and message.nack(requeue=...) issued by the current run of the handler, each
\* with its outcome; saved is the outcome of save_message in that run;
\* deliveries counts the runs of the handler on the message.
UnsentMsg ==
    [pc |-> "unsent", body |-> NoBody, saved |-> "none", settles |-> <<>>,
     deliveries |-> 0]

\* payload = json.loads(message.body.decode("utf-8")) (line 117): decode raises
\* UnicodeDecodeError, caught by `except Exception` (line 128); json.loads
\* raises JSONDecodeError, caught at line 125; both handlers go on to nack.
\* Otherwise the handler awaits save_message.
Decodes(body) == body.kind \in {"not_object", "object"}

\* The handler acks a decoded message before it is saved.
AfterDecode_AckFirst(body) == IF Decodes(body) THEN "ack" ELSE "nack"

AfterDecode(body) == IF Decodes(body) THEN "save" ELSE "nack"

\* start() when its first attempt succeeds (lines 52-76): connection, channel,
\* exchange, queue, binding and subscription are in place.
StartOk ==
    /\ consumer.conn = "none"
    /\ consumer' = [consumer EXCEPT !.conn = "open", !.channel = "open",
                                    !.exchange = TRUE, !.queue = TRUE,
                                    !.consumer_tag = TRUE]
    /\ UNCHANGED <<col, msgs, outsideIngest>>

\* The consumer is constructed with requeue_on_error set (line 29; main.py
\* leaves the default, False).
Construct(flag) ==
    /\ consumer.conn = "none"
    /\ consumer' = NewConsumer(flag)
    /\ UNCHANGED <<col, msgs, outsideIngest>>

\* The broker delivers message m to the subscribed consumer: _on_message runs
\* up to its first await (lines 112-120).
OnMessage(m, body) ==
    /\ consumer.consumer_tag /\ consumer.channel = "open"
    /\ msgs[m].pc = "unsent"
    /\ \A k \in 1..(m - 1) : msgs[k].pc # "unsent"
    /\ msgs' = [msgs EXCEPT ![m] =
                  [UnsentMsg EXCEPT !.pc = AfterDecode(body), !.body = body,
                                    !.deliveries = 1]]
    /\ UNCHANGED <<col, consumer, outsideIngest>>

\* created = await self.repo.save_message(payload) (line 120). A body that is
\* not an object has no .get (AttributeError); a payload without assignmentId
\* or studentId raises ValueError; the write itself may fail (PyMongoError);
\* otherwise the document is created or updated.
SaveRaises(m) ==
    /\ msgs[m].pc = "save"
    /\ msgs' = [msgs EXCEPT ![m].pc = "nack", ![m].saved = "error"]
    /\ UNCHANGED <<col, consumer, outsideIngest>>

SaveReturns(m) ==
    /\ msgs[m].pc = "save"
    /\ msgs[m].body.kind = "object"
    /\ ~PayloadInvalid(msgs[m].body.payload)
    /\ LET upd == UpdateDoc(msgs[m].body.payload, now)
       IN /\ col' = SaveMessage(col, upd)
          /\ msgs' = [msgs EXCEPT ![m].pc = "ack",
                                  ![m].saved = SaveResult(Matching(col, upd) = {})]
    /\ UNCHANGED <<consumer, outsideIngest>>

\* await message.ack() (line 122): the call returns, or it raises and the
\* `except Exception` handler (line 128) goes on to nack.
Ack(m, ok) ==
    /\ msgs[m].pc = "ack"
    /\ msgs' = [msgs EXCEPT
                  ![m].pc = IF ok THEN "returned" ELSE "nack",
                  ![m].settles = Append(@, [op |-> "ack", requeue |-> FALSE,
                                            ok |-> ok])]
    /\ UNCHANGED <<col, consumer, outsideIngest>>

\* await message.nack(requeue=self.requeue_on_error) (lines 127 and 130): the
\* call returns and so does the handler, or it raises out of the handler.
Nack(m, ok) ==
    /\ msgs[m].pc = "nack"
    /\ msgs' = [msgs EXCEPT
                  ![m].pc = IF ok THEN "returned" ELSE "raised",
                  ![m].settles = Append(@, [op |-> "nack",
                                            requeue |-> consumer.requeue_on_error,
                                            ok |-> ok])]
    /\ UNCHANGED <<col, consumer, outsideIngest>>

\* The broker puts a message nacked with requeue=True back on the queue and
\* delivers it again.
Requeued(m) ==
    /\ msgs[m].pc = "returned"
    /\ LET last == msgs[m].settles[Len(msgs[m].settles)]
       IN last.op = "nack" /\ last.ok /\ last.requeue

\* The redeliveries so far, all messages together; a behaviour has fewer than
\* MaxDeliveries of them.
RECURSIVE RedeliveriesUpTo(_, _)
RedeliveriesUpTo(ms, n) ==
    IF n = 0 THEN 0
    ELSE RedeliveriesUpTo(ms, n - 1)
         + (IF ms[n].deliveries > 1 THEN ms[n].deliveries - 1 ELSE 0)

Redeliveries(ms) == RedeliveriesUpTo(ms, MaxMsgs)

Redeliver(m) ==
    /\ consumer.consumer_tag /\ consumer.channel = "open"
    /\ Requeued(m)
    /\ Redeliveries(msgs) < MaxDeliveries - 1
    /\ msgs' = [msgs EXCEPT ![m].pc = AfterDecode(msgs[m].body),
                            ![m].saved = "none", ![m].settles = <<>>,
                            ![m].deliveries = @ + 1]
    /\ UNCHANGED <<col, consumer, outsideIngest>>

NextIngest ==
    \/ \E flag \in BOOLEAN : Construct(flag)
    \/ StartOk
    \/ \E m \in Messages, body \in Bodies : OnMessage(m, body)
    \/ \E m \in Messages : SaveRaises(m)
    \/ \E m \in Messages : SaveReturns(m)
    \/ \E m \in Messages, ok \in BOOLEAN : Ack(m, ok)
    \/ \E m \in Messages, ok \in BOOLEAN : Nack(m, ok)
    \/ \E m \in Messages : Redeliver(m)

----------------------------------------------------------------------------
(* Event ingestor: start() and stop()                                      *)

\* is_ready (lines 106-109)
IsReady(c) == c.conn = "open" /\ c.channel = "open" /\ c.queue /\ c.exchange

\* A call of start or stop: where it is, the attempt counter and max_retries
\* of start, how it ended, and the awaited calls it has made so far, each
\* with its outcome.
NoBoot ==
    [op |-> "none", pc |-> "idle", attempt |-> 0, max_retries |-> 0,
     outcome |-> "none", log |-> <<>>]

\* The awaited calls of one attempt of start, in order (lines 52-74).
StartSteps ==
    <<"connect_robust", "channel", "set_qos", "declare_exchange",
      "declare_queue", "bind", "consume">>

\* The handles after an attempt whose first k awaited calls returned: each
\* handle is assigned when its call returns, and a handle that was not
\* reached keeps the value an earlier attempt left.
AfterStartSteps(c, k) ==
    [c EXCEPT !.conn = IF k >= 1 THEN "open" ELSE @,
              !.channel = IF k >= 2 THEN "open" ELSE @,
              !.exchange = IF k >= 4 THEN TRUE ELSE @,
              !.queue = IF k >= 5 THEN TRUE ELSE @,
              !.consumer_tag = IF k >= 7 THEN TRUE ELSE @]

\* The retry test tells one attempt too many from enough.
Exhausted_OneMore(attempt, max_retries) == attempt > max_retries

\* if attempt >= max_retries: raise (lines 82-84)
Exhausted(attempt, max_retries) == attempt >= max_retries

\* start(max_retries, delay) is called: attempt = 0 (line 48).
StartCall(n) ==
    /\ boot.op = "none"
    /\ boot' = [NoBoot EXCEPT !.op = "start", !.pc = "try", !.max_retries = n]
    /\ UNCHANGED <<consumer, outsideBoot>>

\* One pass of the try block (lines 50-76) in which every awaited call
\* returns: the consumer is subscribed and start returns.
StartAttemptOk ==
    /\ boot.op = "start" /\ boot.pc = "try"
    /\ consumer' = AfterStartSteps(consumer, Len(StartSteps))
    /\ boot' = [boot EXCEPT !.pc = "done", !.outcome = "returned",
                            !.log = Append(@, [step |-> "attempt", ok |-> TRUE])]
    /\ UNCHANGED outsideBoot

\* One pass of the try block in which the awaited call number failAt raises:
\* attempt += 1, then the error is raised again when the attempts are
\* exhausted, and otherwise start goes on to sleep (lines 79-85).
StartAttemptFails(failAt) ==
    /\ boot.op = "start" /\ boot.pc = "try"
    /\ consumer' = AfterStartSteps(consumer, failAt - 1)
    /\ boot' = [boot EXCEPT
                  !.attempt = @ + 1,
                  !.pc = IF Exhausted(boot.attempt + 1, boot.max_retries)
                         THEN "done" ELSE "sleep",
                  !.outcome = IF Exhausted(boot.attempt + 1, boot.max_retries)
                              THEN "raised" ELSE "none",
                  !.log = Append(@, [step |-> "attempt", ok |-> FALSE])]
    /\ UNCHANGED outsideBoot

\* await asyncio.sleep(delay) returns (line 85) and the loop goes round.
StartSleep ==
    /\ boot.op = "start" /\ boot.pc = "sleep"
    /\ boot' = [boot EXCEPT !.pc = "try",
                            !.log = Append(@, [step |-> "sleep", ok |-> TRUE])]
    /\ UNCHANGED <<consumer, outsideBoot>>

\* The task running start is cancelled at an await: inside the try block,
\* after k of its awaited calls returned, CancelledError is raised again
\* (lines 77-78); in asyncio.sleep it leaves start directly.
StartCancelled(k) ==
    /\ boot.op = "start"
    /\ \/ boot.pc = "try"
       \/ boot.pc = "sleep" /\ k = 0
    /\ consumer' = AfterStartSteps(consumer, k)
    /\ boot' = [boot EXCEPT !.pc = "done", !.outcome = "cancelled"]
    /\ UNCHANGED outsideBoot

\* The steps of stop, in the order of the code.
StopSteps == <<"cancel", "channel_close", "conn_close">>

\* A stop that gives up at the first step that raises.
AfterStopStep_Abort(k, ok) ==
    IF ~ok THEN "done" ELSE IF k < Len(StopSteps) THEN StopSteps[k + 1] ELSE "done"

\* Each step of stop sits in its own try / except Exception (lines 88-102):
\* whether its call returns or raises, stop goes on to the next step.
AfterStopStep(k, ok) ==
    IF k < Len(StopSteps) THEN StopSteps[k + 1] ELSE "done"

\* if self._queue and self._consumer_tag / if self._channel and not
\* self._channel.is_closed / if self._conn and not self._conn.is_closed
StopStepDue(c, k) ==
    CASE k = 1 -> c.queue /\ c.consumer_tag
      [] k = 2 -> c.channel = "open"
      [] k = 3 -> c.conn = "open"

\* What the call of step k does when it returns: the subscription is
\* cancelled at the broker (the handles stay), the channel is closed, the
\* connection and with it its channel are closed.
StopStepEffect(c, k) ==
    CASE k = 1 -> c
      [] k = 2 -> [c EXCEPT !.channel = "closed"]
      [] k = 3 -> [c EXCEPT !.conn = "closed",
                            !.channel = IF @ = "none" THEN "none" ELSE "closed"]

\* self._conn = self._channel = self._exchange = self._queue = None;
\* self._consumer_tag = None (lines 103-104)
ResetHandles(c) == NewConsumer(c.requeue_on_error)

\* stop() is called.
StopCall ==
    /\ boot.op = "none"
    /\ boot' = [NoBoot EXCEPT !.op = "stop", !.pc = StopSteps[1]]
    /\ UNCHANGED <<consumer, outsideBoot>>

\* Step k of stop: its test, its awaited call when the test holds, which
\* returns (ok) or raises, and after the last step the reset of the handles
\* and the return.
StopStep(k, ok) ==
    /\ boot.op = "stop" /\ boot.pc = StopSteps[k]
    /\ LET due == StopStepDue(consumer, k)
           next == AfterStopStep(k, ok \/ ~due)
           c == IF due /\ ok THEN StopStepEffect(consumer, k) ELSE consumer
       IN /\ boot' = [boot EXCEPT
                        !.pc = next,
                        !.outcome = IF next # "done" THEN "none"
                                    ELSE IF k = Len(StopSteps) THEN "returned"
                                    ELSE "raised",
                        !.log = IF due THEN Append(@, [step |-> StopSteps[k],
                                                       ok |-> ok])
                                ELSE @]
          /\ consumer' = IF next = "done" /\ k = Len(StopSteps)
                         THEN ResetHandles(c) ELSE c
    /\ UNCHANGED outsideBoot

\* The caller of start or stop takes the outcome.
BootReturn ==
    /\ boot.pc = "done"
    /\ boot' = NoBoot
    /\ UNCHANGED <<consumer, outsideBoot>>

\* The transport fails under an established consumer: connection and channel
\* report is_closed.
ConnectionLost ==
    /\ boot.op = "none"
    /\ consumer.conn = "open"
    /\ consumer' = [consumer EXCEPT !.conn = "closed",
                                    !.channel = IF @ = "none" THEN "none" ELSE "closed"]
    /\ UNCHANGED <<boot, outsideBoot>>

NextBoot ==
    \/ \E n \in 0..MaxRetries : StartCall(n)
    \/ StartAttemptOk
    \/ \E failAt \in 1..Len(StartSteps) : StartAttemptFails(failAt)
    \/ StartSleep
    \/ \E k \in 0..(Len(StartSteps) - 1) : StartCancelled(k)
    \/ StopCall
    \/ \E k \in 1..Len(StopSteps), ok \in BOOLEAN : StopStep(k, ok)
    \/ BootReturn
    \/ ConnectionLost

----------------------------------------------------------------------------
(* Report publisher: ReviewPublisher                                       *)

PubTasks == 1..NumTasks

\* connect(self, max_retries: int = 5, delay: int = 3)
DefaultConnectRetries == 5

\* __init__ (lines 26-31): no handle, and a free lock. A connection or channel
\* handle is 0 (None) or the identity of the object; the exchange handle is 0
\* or the identity of the channel the exchange object was declared on; lock is
\* 0 or the task that holds it.
NewPublisher ==
    [conn |-> 0, channel |-> 0, exchange |-> 0, temp_queue |-> FALSE, lock |-> 0]

\* The broker's side: the connections and channels opened so far, which of
\* them are open, the connection of each channel; the number of awaited
\* calls that failed on their own account; whether a close() has ended.
NewBroker ==
    [nconn |-> 0, nchan |-> 0, connOpen |-> {}, chanOpen |-> {},
     chanConn |-> [c \in 1..MaxChans |-> 0], faults |-> 0, ops |-> 0,
     closed |-> FALSE]

\* One coroutine on the publisher: the operation it runs, the await it is
\* suspended at, the locals of connect (attempt, max_retries), the object its
\* awaited call was made on (conn, chan), an exception of close waiting for
\* the finally block (pending), how the operation ended, the attempts and
\* sleeps of connect (log), and the circumstances of the operation: started
\* after a close() had ended, no other coroutine active during it, no awaited
\* call of it failed on its own account.
IdleTask ==
    [op |-> "none", pc |-> "idle", attempt |-> 0, max_retries |-> 0,
     conn |-> 0, chan |-> 0, pending |-> FALSE, outcome |-> "none",
     log |-> <<>>, afterClose |-> FALSE, solo |-> FALSE, faulted |-> FALSE]

\* self._conn and not self._conn.is_closed
ConnUsable(b, k) == k # 0 /\ k \in b.connOpen

\* self._channel and not self._channel.is_closed
ChanUsable(b, c) == c # 0 /\ c \in b.chanOpen

\* A coroutine starts an operation: the others are no longer alone.
Started(tasks, t, op) ==
    [u \in PubTasks |->
        IF u = t
        THEN [IdleTask EXCEPT !.op = op,
                              !.solo = (\A v \in PubTasks \ {t} : tasks[v].op = "none")]
        ELSE [tasks[u] EXCEPT !.solo = FALSE]]

\* An awaited call returns (ok) or raises on its own account. Under a direct
\* call of connect every call may raise, its retries being bounded by
\* max_retries; elsewhere the environment does so a bounded number of times.
MayFail(t, ok) == ok \/ ptasks[t].op = "connect" \/ broker.faults < MaxFaults

Faulted(b, t, ok) ==
    IF ok \/ ptasks[t].op = "connect" THEN b ELSE [b EXCEPT !.faults = @ + 1]

Ended(tk, outcome) == [tk EXCEPT !.pc = "done", !.outcome = outcome]

\* _ensure_ready from the exchange test on (lines 83-88), and
\* publish_review_report up to its await (lines 102-127): the exchange is
\* declared on the channel that self._channel names, or the message is
\* published through the exchange object that self._exchange names.
AfterChannel(tk, p) ==
    IF p.exchange = 0
    THEN [tk EXCEPT !.pc = "e_exch", !.chan = p.channel]
    ELSE [tk EXCEPT !.pc = "p_pub", !.chan = p.exchange]

\* _ensure_ready from the channel test on (lines 79-82): a new channel is
\* asked of the connection that self._conn names (None fails the assert).
AfterConnect(tk, p, b) ==
    IF ~ChanUsable(b, p.channel)
    THEN IF p.conn = 0 THEN Ended(tk, "raised")
         ELSE [tk EXCEPT !.pc = "e_chan", !.conn = p.conn]
    ELSE AfterChannel(tk, p)

\* The end of connect: it returns to its caller, or to _ensure_ready.
AfterConnectReturns(tk, p, b) ==
    IF tk.op = "connect" THEN Ended(tk, "returned") ELSE AfterConnect(tk, p, b)

\* if attempt >= max_retries: raise (lines 54-56)
ConnectExhausted(attempt, max_retries) == attempt >= max_retries

\* except Exception in connect (lines 51-57): attempt += 1, raise when the
\* attempts are exhausted, else sleep.
ConnectFailed(tk) ==
    LET a == tk.attempt + 1
        logged == [tk EXCEPT !.attempt = a,
                             !.log = Append(@, [step |-> "attempt", ok |-> FALSE])]
    IN IF ConnectExhausted(a, tk.max_retries) THEN Ended(logged, "raised")
       ELSE [logged EXCEPT !.pc = "c_sleep"]

\* connect(max_retries, delay) is called directly (main.py line 63).
CallConnect(t, n) ==
    /\ ptasks[t].op = "none"
    /\ broker.ops < MaxOps
    /\ broker' = [broker EXCEPT !.ops = @ + 1]
    /\ ptasks' = [Started(ptasks, t, "connect") EXCEPT
                    ![t].pc = "c_conn", ![t].max_retries = n]
    /\ UNCHANGED <<pub, outsidePub>>

\* publish_review_report is called: _ensure_ready up to its first await. A
\* missing or closed connection leads into connect() with its defaults.
CallPublish(t) ==
    /\ ptasks[t].op = "none"
    /\ broker.ops < MaxOps
    /\ broker' = [broker EXCEPT !.ops = @ + 1]
    /\ LET st == Started(ptasks, t, "publish")
           tk == [st[t] EXCEPT !.afterClose = broker.closed]
       IN ptasks' = [st EXCEPT ![t] =
             IF ~ConnUsable(broker, pub.conn)
             THEN [tk EXCEPT !.pc = "c_conn", !.max_retries = DefaultConnectRetries]
             ELSE AfterConnect(tk, pub, broker)]
    /\ UNCHANGED <<pub, outsidePub>>

\* close() is called: it waits for the lock (line 61).
CallClose(t) ==
    /\ ptasks[t].op = "none"
    /\ broker.ops < MaxOps
    /\ broker' = [broker EXCEPT !.ops = @ + 1]
    /\ ptasks' = [Started(ptasks, t, "close") EXCEPT ![t].pc = "x_lock"]
    /\ UNCHANGED <<pub, outsidePub>>

\* self._conn = await aio_pika.connect_robust(...) (line 39)
ConnectRobust(t, ok) ==
    /\ ptasks[t].pc = "c_conn"
    /\ MayFail(t, ok)
    /\ ok => broker.nconn < MaxConns
    /\ IF ok
       THEN LET k == broker.nconn + 1
            IN /\ broker' = [broker EXCEPT !.nconn = k, !.connOpen = @ \cup {k}]
               /\ pub' = [pub EXCEPT !.conn = k]
               /\ ptasks' = [ptasks EXCEPT ![t].pc = "c_chan", ![t].conn = k]
       ELSE /\ broker' = Faulted(broker, t, FALSE)
            /\ pub' = pub
            /\ ptasks' = [ptasks EXCEPT
                            ![t] = ConnectFailed([@ EXCEPT !.faulted = TRUE])]
    /\ UNCHANGED outsidePub

\* self._channel = await self._conn.channel(publisher_confirms=True) (line
\* 40), on the connection just assigned; a closed connection refuses.
ConnectChannel(t, ok) ==
    /\ ptasks[t].pc = "c_chan"
    /\ MayFail(t, ok)
    /\ (ok /\ ConnUsable(broker, ptasks[t].conn)) => broker.nchan < MaxChans
    /\ IF ok /\ ConnUsable(broker, ptasks[t].conn)
       THEN LET c == broker.nchan + 1
            IN /\ broker' = [broker EXCEPT !.nchan = c, !.chanOpen = @ \cup {c},
                                           !.chanConn[c] = ptasks[t].conn]
               /\ pub' = [pub EXCEPT !.channel = c]
               /\ ptasks' = [ptasks EXCEPT ![t].pc = "c_qos", ![t].chan = c]
       ELSE /\ broker' = Faulted(broker, t, ok)
            /\ pub' = pub
            /\ ptasks' = [ptasks EXCEPT
                            ![t] = ConnectFailed([@ EXCEPT !.faulted = @ \/ ~ok])]
    /\ UNCHANGED outsidePub

\* await self._channel.set_qos(prefetch_count=10) (line 41), on the channel
\* just assigned. When it returns, declare_exchange is called on what
\* self._channel names by then (None raises AttributeError inside the try).
ConnectQos(t, ok) ==
    /\ ptasks[t].pc = "c_qos"
    /\ MayFail(t, ok)
    /\ broker' = Faulted(broker, t, ok)
    /\ ptasks' = [ptasks EXCEPT ![t] =
          IF ok /\ ChanUsable(broker, ptasks[t].chan) /\ pub.channel # 0
          THEN [@ EXCEPT !.pc = "c_exch", !.chan = pub.channel]
          ELSE ConnectFailed([@ EXCEPT !.faulted = @ \/ ~ok])]
    /\ UNCHANGED <<pub, outsidePub>>

\* self._exchange = await self._channel.declare_exchange(...) (lines 43-45),
\* and the return of connect (line 48).
ConnectExchange(t, ok) ==
    /\ ptasks[t].pc = "c_exch"
    /\ MayFail(t, ok)
    /\ broker' = Faulted(broker, t, ok)
    /\ IF ok /\ ChanUsable(broker, ptasks[t].chan)
       THEN /\ pub' = [pub EXCEPT !.exchange = ptasks[t].chan]
            /\ ptasks' = [ptasks EXCEPT ![t] =
                  AfterConnectReturns(
                      [@ EXCEPT !.log = Append(@, [step |-> "attempt", ok |-> TRUE])],
                      pub', broker)]
       ELSE /\ pub' = pub
            /\ ptasks' = [ptasks EXCEPT
                            ![t] = ConnectFailed([@ EXCEPT !.faulted = @ \/ ~ok])]
    /\ UNCHANGED outsidePub

\* await asyncio.sleep(delay) returns (line 57) and the loop goes round.
ConnectSleep(t) ==
    /\ ptasks[t].pc = "c_sleep"
    /\ ptasks' = [ptasks EXCEPT ![t].pc = "c_conn",
                                ![t].log = Append(@, [step |-> "sleep", ok |-> TRUE])]
    /\ UNCHANGED <<pub, broker, outsidePub>>

\* The coroutine is cancelled at an await of connect (lines 49-50, 57).
ConnectCancelled(t) ==
    /\ ptasks[t].pc \in {"c_conn", "c_chan", "c_qos", "c_exch", "c_sleep"}
    /\ ptasks' = [ptasks EXCEPT ![t] = Ended(@, "cancelled")]
    /\ UNCHANGED <<pub, broker, outsidePub>>

\* self._channel = await self._conn.channel(publisher_confirms=True) in
\* _ensure_ready (line 82); an exception leaves publish_review_report.
EnsureChannel(t, ok) ==
    /\ ptasks[t].pc = "e_chan"
    /\ MayFail(t, ok)
    /\ (ok /\ ConnUsable(broker, ptasks[t].conn)) => broker.nchan < MaxChans
    /\ IF ok /\ ConnUsable(broker, ptasks[t].conn)
       THEN LET c == broker.nchan + 1
            IN /\ broker' = [broker EXCEPT !.nchan = c, !.chanOpen = @ \cup {c},
                                           !.chanConn[c] = ptasks[t].conn]
               /\ pub' = [pub EXCEPT !.channel = c]
               /\ ptasks' = [ptasks EXCEPT ![t] = AfterChannel(@, pub')]
       ELSE /\ broker' = Faulted(broker, t, ok)
            /\ pub' = pub
            /\ ptasks' = [ptasks EXCEPT
                            ![t] = Ended([@ EXCEPT !.faulted = @ \/ ~ok], "raised")]
    /\ UNCHANGED outsidePub

\* self._exchange = await self._channel.declare_exchange(...) in
\* _ensure_ready (lines 85-88).
EnsureExchange(t, ok) ==
    /\ ptasks[t].pc = "e_exch"
    /\ MayFail(t, ok)
    /\ broker' = Faulted(broker, t, ok)
    /\ IF ok /\ ChanUsable(broker, ptasks[t].chan)
       THEN /\ pub' = [pub EXCEPT !.exchange = ptasks[t].chan]
            /\ ptasks' = [ptasks EXCEPT ![t] = AfterChannel(@, pub')]
       ELSE /\ pub' = pub
            /\ ptasks' = [ptasks EXCEPT
                            ![t] = Ended([@ EXCEPT !.faulted = @ \/ ~ok], "raised")]
    /\ UNCHANGED outsidePub

\* await self._exchange.publish(...) (line 127): the exchange object sends on
\* its channel; an exception is logged and raised again (lines 131-133).
Publish(t, ok) ==
    /\ ptasks[t].pc = "p_pub"
    /\ MayFail(t, ok)
    /\ broker' = Faulted(broker, t, ok)
    /\ ptasks' = [ptasks EXCEPT ![t] =
          IF ok /\ ChanUsable(broker, ptasks[t].chan)
          THEN Ended(@, "published")
          ELSE Ended([@ EXCEPT !.faulted = @ \/ ~ok], "raised")]
    /\ UNCHANGED <<pub, outsidePub>>

\* The end of close: with no exception pending the handles are set to None
\* (lines 70-73); the lock is released either way.
CloseEnds(p, pending) ==
    IF pending THEN [p EXCEPT !.lock = 0] ELSE NewPublisher

\* close from the finally block on (lines 66-73).
CloseFinally(t, tk, p, b) ==
    IF ConnUsable(b, p.conn)
    THEN /\ ptasks' = [ptasks EXCEPT ![t] = [tk EXCEPT !.pc = "x_conn", !.conn = p.conn]]
         /\ pub' = p
         /\ broker' = b
    ELSE /\ ptasks' = [ptasks EXCEPT ![t] =
                          Ended(tk, IF tk.pending THEN "raised" ELSE "returned")]
         /\ pub' = CloseEnds(p, tk.pending)
         /\ broker' = [b EXCEPT !.closed = TRUE]

\* async with self._lock (line 61) is entered, and close runs to its first
\* await.
CloseLock(t) ==
    /\ ptasks[t].pc = "x_lock"
    /\ pub.lock = 0
    /\ IF ChanUsable(broker, pub.channel)
       THEN /\ ptasks' = [ptasks EXCEPT ![t].pc = "x_chan", ![t].chan = pub.channel]
            /\ pub' = [pub EXCEPT !.lock = t]
            /\ broker' = broker
       ELSE CloseFinally(t, ptasks[t], [pub EXCEPT !.lock = t], broker)
    /\ UNCHANGED outsidePub

\* await self._channel.close() (line 65) returns or raises; the finally
\* block follows in both cases.
CloseChannel(t, ok) ==
    /\ ptasks[t].pc = "x_chan"
    /\ MayFail(t, ok)
    /\ CloseFinally(t, [ptasks[t] EXCEPT !.pending = ~ok, !.faulted = @ \/ ~ok], pub,
                    IF ok THEN [broker EXCEPT !.chanOpen = @ \ {ptasks[t].chan}]
                    ELSE Faulted(broker, t, FALSE))
    /\ UNCHANGED outsidePub

\* await self._conn.close() (line 69) returns, closing the connection and
\* its channels, or raises.
CloseConn(t, ok) ==
    /\ ptasks[t].pc = "x_conn"
    /\ MayFail(t, ok)
    /\ LET pending == ptasks[t].pending \/ ~ok
       IN /\ ptasks' = [ptasks EXCEPT ![t] =
                Ended([@ EXCEPT !.pending = pending, !.faulted = @ \/ ~ok],
                      IF pending THEN "raised" ELSE "returned")]
          /\ pub' = CloseEnds(pub, pending)
    /\ broker' =
          IF ok
          THEN [broker EXCEPT
                  !.connOpen = @ \ {ptasks[t].conn},
                  !.chanOpen = {c \in @ : broker.chanConn[c] # ptasks[t].conn},
                  !.closed = TRUE]
          ELSE [Faulted(broker, t, FALSE) EXCEPT !.closed = TRUE]
    /\ UNCHANGED outsidePub

\* The caller takes the outcome of the operation.
TaskReturn(t) ==
    /\ ptasks[t].pc = "done"
    /\ ptasks' = [ptasks EXCEPT ![t] = IdleTask]
    /\ UNCHANGED <<pub, broker, outsidePub>>

NextPublisher ==
    \E t \in PubTasks :
        \/ CallPublish(t)
        \/ CallClose(t)
        \/ \E ok \in BOOLEAN : ConnectRobust(t, ok)
        \/ \E ok \in BOOLEAN : ConnectChannel(t, ok)
        \/ \E ok \in BOOLEAN : ConnectQos(t, ok)
        \/ \E ok \in BOOLEAN : ConnectExchange(t, ok)
        \/ ConnectSleep(t)
        \/ ConnectCancelled(t)
        \/ \E ok \in BOOLEAN : EnsureChannel(t, ok)
        \/ \E ok \in BOOLEAN : EnsureExchange(t, ok)
        \/ \E ok \in BOOLEAN : Publish(t, ok)
        \/ CloseLock(t)
        \/ \E ok \in BOOLEAN : CloseChannel(t, ok)
        \/ \E ok \in BOOLEAN : CloseConn(t, ok)
        \/ TaskReturn(t)

----------------------------------------------------------------------------
(* The state after construction, and the specifications                    *)

Init ==
    /\ col = {}
    /\ now = 0
    /\ calls = [w \in Workers |-> IdleCall]
    /\ lastApplied = [k \in Keys |-> NoEvent]
    /\ dist = IdleDist
    /\ reviews = {}
    /\ resp = NoResp
    /\ consumer = NewConsumer(DefaultRequeueOnError)
    /\ msgs = [m \in Messages |-> UnsentMsg]
    /\ boot = NoBoot
    /\ pub = NewPublisher
    /\ broker = NewBroker
    /\ ptasks = [t \in PubTasks |-> IdleTask]

\* The events of the distributor specifications carry no extra field.
DeliveredEvents(students) ==
    {p \in Payloads : p.assignmentId = "A1" /\ p.studentId \in students
                      /\ p.deliveredAt = Absent}

\* Automatic distribution over the deliveries of NumStudents students.
IngestAuto == dist.pc = "idle" /\ \E p \in DeliveredEvents(Students) : Deliver(p)

RequestAuto == dist.pc = "idle" /\ \E req \in AutoRequests : Build(req)

NextAuto == IngestAuto \/ RequestAuto \/ BuildReturn

SpecAuto == Init /\ [][NextAuto]_vars

\* Manual distribution over the deliveries of NumManual students.
IngestManual ==
    dist.pc = "idle" /\ \E p \in DeliveredEvents(ManualStudents) : Deliver(p)

RequestManual == dist.pc = "idle" /\ \E req \in ManualRequests : Build(req)

NextManual == IngestManual \/ RequestManual \/ BuildReturn

SpecManual == Init /\ [][NextManual]_vars

\* Both modes over the deliveries of NumManual students.
NextDistributor == IngestManual \/ RequestManual \/ RequestAuto \/ BuildReturn

SpecDistributor == Init /\ [][NextDistributor]_vars

\* The ingestor: a consumer constructed with either setting, started, and the
\* handlers of the messages the broker delivers, which interleave at their
\* awaits.
SpecIngest == Init /\ [][NextIngest]_vars

\* The same ingestor on an event loop that resumes every handler whose awaited
\* call has completed: save_message, ack and nack all return or raise.
SpecIngestLive ==
    /\ SpecIngest
    /\ \A m \in Messages :
          /\ WF_vars(SaveRaises(m) \/ SaveReturns(m))
          /\ WF_vars(\E ok \in BOOLEAN : Ack(m, ok))
          /\ WF_vars(\E ok \in BOOLEAN : Nack(m, ok))

\* The life of the consumer: calls of start and stop one after the other, in
\* any order, with every awaited call free to fail, and transport failures
\* in between.
SpecBoot == Init /\ [][NextBoot]_vars

\* The publisher under concurrent coroutines: direct calls of connect,
\* publishes and closes, interleaved at their awaits.
SpecPublisher == Init /\ [][NextPublisher]_vars

\* The coroutine of the application's startup (main.py, lifespan).
MainTask == 1

\* The startup coroutine is not inside a call of start or connect.
MainTaskFree ==
    boot.pc \in {"idle", "done"} /\ ptasks[MainTask].pc \in {"idle", "done"}

\* The publisher has not been used yet.
FreshPublisher == broker.ops = 0

\* Startup: calls of the consumer's start and the call of connect on the new
\* publisher, one at a time, with any max_retries, every awaited call of
\* theirs free to fail or to be cancelled.
NextRetry ==
    \/ MainTaskFree /\ \E n \in 0..MaxRetries : StartCall(n)
    \/ StartAttemptOk
    \/ \E failAt \in 1..Len(StartSteps) : StartAttemptFails(failAt)
    \/ StartSleep
    \/ \E k \in 0..(Len(StartSteps) - 1) : StartCancelled(k)
    \/ BootReturn
    \/ MainTaskFree /\ FreshPublisher
          /\ \E n \in 0..MaxRetries : CallConnect(MainTask, n)
    \/ \E ok \in BOOLEAN : ConnectRobust(MainTask, ok)
    \/ \E ok \in BOOLEAN : ConnectChannel(MainTask, ok)
    \/ \E ok \in BOOLEAN : ConnectQos(MainTask, ok)
    \/ \E ok \in BOOLEAN : ConnectExchange(MainTask, ok)
    \/ ConnectSleep(MainTask)
    \/ ConnectCancelled(MainTask)
    \/ TaskReturn(MainTask)

SpecRetry == Init /\ [][NextRetry]_vars

----------------------------------------------------------------------------
(* The specification of the event store under concurrent workers          *)

\* The events the store specification feeds to save_message.
StoreEvents ==
    {[assignmentId |-> "A1", studentId |-> 1, submissionId |-> "SUB-1", deliveredAt |-> "t1"],
     [assignmentId |-> "A1", studentId |-> 1, submissionId |-> "SUB-2", deliveredAt |-> Absent],
     [assignmentId |-> "A1", studentId |-> 2, submissionId |-> "SUB-1", deliveredAt |-> "t1"],
     [assignmentId |-> "A1", studentId |-> 0, submissionId |-> "SUB-2", deliveredAt |-> Absent],
     [assignmentId |-> "",   studentId |-> 1, submissionId |-> "SUB-2", deliveredAt |-> Absent]}

NextStore ==
    \E w \in Workers :
        \/ \E p \in StoreEvents : Call(w, p)
        \/ UpsertMatch(w)
        \/ UpsertMiss(w)
        \/ UpsertInsert(w)
        \/ UpsertDuplicate(w)
        \/ RetryUpdate(w)

SpecStore == Init /\ [][NextStore]_vars

\* The review ledger: the operations of ReviewService, one at a time.
\* A request is served once the previous response has been taken.
StartProcessCall ==
    /\ resp.op = "none"
    /\ \E caller \in Callers, lista \in LedgerLists, rubrica \in Rubrics :
          \E rids \in [1..Len(lista) -> ReviewIds] :
              StartProcess(caller, "A1", lista, rubrica, rids)

ListMyReviewsCall ==
    /\ resp.op = "none"
    /\ \E caller \in Callers, stato \in {"", "pending", "complete"} :
          ListMyReviews(caller, stato)

GetMyReviewCall ==
    /\ resp.op = "none"
    /\ \E caller \in Callers, rid \in ReviewIds : GetMyReview(caller, rid)

SubmitReviewCall ==
    /\ resp.op = "none"
    /\ \E caller \in Callers, rid \in ReviewIds, v \in Valutazioni :
          SubmitReview(caller, rid, v)

ListByAssignmentCall ==
    /\ resp.op = "none"
    /\ \E caller \in Callers, aid \in {"A1", "A2"} :
          ListByAssignmentForTeacher(caller, aid)

\* The caller takes the response.
Reply ==
    /\ resp.op # "none"
    /\ resp' = NoResp
    /\ UNCHANGED <<reviews, outsideLedger>>

NextLedger ==
    \/ StartProcessCall
    \/ ListMyReviewsCall
    \/ GetMyReviewCall
    \/ SubmitReviewCall
    \/ ListByAssignmentCall
    \/ Reply

SpecLedger == Init /\ [][NextLedger]_vars

----------------------------------------------------------------------------
(* Claims about the event store                                            *)

DocsOfKey(k) == {d \in col : KeyOf(d) = k}

Finished(w) == calls[w].pc = "done" /\ calls[w].res # "ValueError"

\* C4: idempotent ingestion. A finished save of a valid event leaves exactly
\* one stored record for its (assignmentId, studentId); a save that started
\* when the key was already stored reports created=false, and a save on a
\* fresh key that no other save of that key overlapped reports created=true.
C4_IdempotentIngestion ==
    \A w \in Workers :
        Finished(w) =>
            /\ Cardinality(DocsOfKey(KeyOf(calls[w].upd))) = 1
            /\ calls[w].existed => calls[w].res = "updated"
            /\ (~calls[w].existed /\ calls[w].alone) => calls[w].res = "created"

\* A first save on a fresh key has reported created=true and a repeated save
\* of the same key has reported created=false; one record is stored.
C4_Witness ==
    \E w1, w2 \in Workers :
        /\ w1 # w2 /\ Finished(w1) /\ Finished(w2)
        /\ KeyOf(calls[w1].upd) = KeyOf(calls[w2].upd)
        /\ ~calls[w1].existed /\ calls[w1].alone /\ calls[w1].res = "created"
        /\ calls[w2].existed /\ calls[w2].alone /\ calls[w2].res = "updated"
        /\ Cardinality(DocsOfKey(KeyOf(calls[w1].upd))) = 1

\* C5: under every interleaving of concurrent save_message calls the store
\* holds at most one record per (assignmentId, studentId), and a call that
\* lost the insert race (DuplicateKeyError) ends as a plain overwrite that
\* returns created=false: its event was written and no error reached the caller.
C5_AtMostOnePerKey ==
    /\ \A k \in Keys : Cardinality(DocsOfKey(k)) <= 1
    /\ \A w \in Workers :
          (calls[w].pc = "done" /\ calls[w].raced) =>
              (calls[w].res = "updated" /\ calls[w].applied)

\* A call lost the insert race and finished as an overwrite.
C5_Witness ==
    \E w \in Workers :
        /\ calls[w].pc = "done" /\ calls[w].raced
        /\ calls[w].res = "updated" /\ calls[w].applied
        /\ \E v \in Workers \ {w} :
              KeyOf(calls[v].upd) = KeyOf(calls[w].upd) /\ calls[v].res = "created"

\* C6: last write wins with full overwrite. Every stored record is exactly the
\* last event the store applied to its key plus receivedAt: it carries no
\* field value of an earlier event.
C6_FullOverwrite ==
    \A d \in col : d = lastApplied[KeyOf(d)]

\* The worker's save_message call returns in this step.
Returns(w) == calls[w].pc # "done" /\ calls'[w].pc = "done"

\* C33: among concurrent save_message calls for the same previously absent
\* key exactly one returns created=true and all the others created=false. A
\* key that is stored stays stored; the step that stores an absent key is the
\* return of created=true by exactly one call, and a call that returns while
\* the key is already stored returns created=false.
C33_OneCreated ==
    [][/\ \A k \in Keys : DocsOfKey(k) # {} => (DocsOfKey(k) # {})'
       /\ \A k \in Keys :
             (DocsOfKey(k) = {} /\ (DocsOfKey(k) # {})') =>
                 Cardinality({w \in Workers :
                                /\ Returns(w)
                                /\ KeyOf(calls'[w].upd) = k
                                /\ calls'[w].res = "created"}) = 1
       /\ \A w \in Workers :
             (/\ Returns(w)
              /\ calls'[w].res # "ValueError"
              /\ DocsOfKey(KeyOf(calls'[w].upd)) # {}) =>
                 calls'[w].res = "updated"
      ]_vars

\* Two calls for the same key both started while the key was absent and
\* overlapped; both have returned, one with created=true, the other with
\* created=false, and the key is stored once.
C33_Witness ==
    \E w1, w2 \in Workers :
        /\ w1 # w2 /\ Finished(w1) /\ Finished(w2)
        /\ KeyOf(calls[w1].upd) = KeyOf(calls[w2].upd)
        /\ ~calls[w1].existed /\ ~calls[w2].existed
        /\ ~calls[w1].alone /\ ~calls[w2].alone
        /\ calls[w1].res = "created" /\ calls[w2].res = "updated"
        /\ Cardinality(DocsOfKey(KeyOf(calls[w1].upd))) = 1


----------------------------------------------------------------------------
(* Claims about the distributor                                            *)

\* What the finished call read from the store.
SeenSubmissions == ListDelivered(col, dist.req.assignmentId)

SeenStudents == StudentsOf(SeenSubmissions)

OwnSubmission(r) == StudentToSubmission(SeenSubmissions)[r]

ReviewersOf(list) == {list[i].reviewer : i \in 1..Len(list)}

\* C1: derangement correctness. Every automatic request over n >= 2 students
\* with a delivered submission returns n pairs whose reviewers are exactly
\* those students and none of which gives a reviewer their own submission; the
\* final assertion never fails, whatever the random choices.
C1_Derangement ==
    (dist.pc = "done" /\ dist.req.automatic_mode /\ Cardinality(SeenStudents) >= 2) =>
        /\ dist.res.kind = "ok"
        /\ Len(dist.res.list) = Cardinality(SeenStudents)
        /\ ReviewersOf(dist.res.list) = SeenStudents
        /\ \A i \in 1..Len(dist.res.list) :
              dist.res.list[i].submissionId # OwnSubmission(dist.res.list[i].reviewer)

\* C2: the reviewers of every returned list, manual or automatic, are exactly
\* the students with a delivered submission.
C2_ReviewersAreDelivered ==
    (dist.pc = "done" /\ dist.res.kind = "ok") =>
        ReviewersOf(dist.res.list) = SeenStudents

\* C3: every pair of every returned list names a delivered submission that is
\* not the reviewer's own delivered submission.
C3_PairsValid ==
    (dist.pc = "done" /\ dist.res.kind = "ok") =>
        \A i \in 1..Len(dist.res.list) :
            LET a == dist.res.list[i]
            IN /\ a.submissionId \in SubmissionIdsOf(SeenSubmissions)
               /\ a.reviewer \in SeenStudents => a.submissionId # OwnSubmission(a.reviewer)

\* The delivered students that are no reviewer of the manual list of the
\* finished call.
MissingReviewers == SeenStudents \ ReviewersOf(dist.req.lista_assegnazioni)

\* The sequence q enumerates exactly the ids of S, in increasing order.
EnumeratesSorted(q, S) ==
    /\ Range(q) = S
    /\ \A i, j \in 1..Len(q) : i < j => q[i] < q[j]

\* C17: manual validation completeness. A manual request whose list leaves out
\* at least one student with a delivered submission fails with a
\* DistributionError that enumerates exactly the missing student ids, sorted.
C17_MissingReported ==
    (dist.pc = "done" /\ ~dist.req.automatic_mode /\ MissingReviewers # {}) =>
        /\ dist.res.kind = "DistributionError"
        /\ dist.res.reason = "missing"
        /\ EnumeratesSorted(dist.res.missing, MissingReviewers)

\* C17 amended: the same for a manual request that supplies a list with at
\* least one pair; with no list, or an empty one, the request fails with the
\* DistributionError that asks for the list and names no student.
C17_MissingReportedNonEmpty ==
    (/\ dist.pc = "done" /\ ~dist.req.automatic_mode
     /\ dist.req.lista_assegnazioni # <<>>
     /\ MissingReviewers # {}) =>
        /\ dist.res.kind = "DistributionError"
        /\ dist.res.reason = "missing"
        /\ EnumeratesSorted(dist.res.missing, MissingReviewers)

\* A list whose only reviewer delivered nothing was refused with the two
\* delivered students enumerated in order.
C17_Witness ==
    /\ dist.pc = "done" /\ ~dist.req.automatic_mode
    /\ dist.req.lista_assegnazioni # <<>>
    /\ dist.res.kind = "DistributionError" /\ dist.res.reason = "missing"
    /\ dist.res.missing = <<1, 2>>

\* The pair gives its reviewer the submission the reviewer delivered.
PairIsSelfReview(a) ==
    a.reviewer \in SeenStudents /\ a.submissionId = OwnSubmission(a.reviewer)

\* The pair names a submission nobody delivered.
PairIsUnknown(a) == a.submissionId \notin SubmissionIdsOf(SeenSubmissions)

\* C18: a manual request over a non-empty delivered set whose list covers all
\* delivered students and has a pair that is a self-review or names an unknown
\* submission fails with one DistributionError that reports every self-review
\* (reviewer and submission) and every unknown submission of the list.
C18_InvalidPairsReported ==
    LET list == dist.req.lista_assegnazioni
    IN (/\ dist.pc = "done" /\ ~dist.req.automatic_mode
        /\ list # <<>> /\ SeenSubmissions # {} /\ MissingReviewers = {}
        /\ \E i \in 1..Len(list) : PairIsSelfReview(list[i]) \/ PairIsUnknown(list[i])) =>
           /\ dist.res.kind = "DistributionError"
           /\ dist.res.reason = "invalid_pairs"
           /\ \A i \in 1..Len(list) :
                 /\ PairIsSelfReview(list[i]) => SelfReview(list[i]) \in Range(dist.res.errors)
                 /\ PairIsUnknown(list[i]) => NotFound(list[i]) \in Range(dist.res.errors)

\* C19: each reviewer appears exactly once in every returned list, manual or
\* automatic, and a manual list in which a reviewer id appears more than once
\* is rejected with a DistributionError.
C19_ReviewerOnce ==
    /\ (dist.pc = "done" /\ dist.res.kind = "ok") =>
          Cardinality(ReviewersOf(dist.res.list)) = Len(dist.res.list)
    /\ (/\ dist.pc = "done" /\ ~dist.req.automatic_mode
        /\ Cardinality(ReviewersOf(dist.req.lista_assegnazioni))
             # Len(dist.req.lista_assegnazioni)) =>
          dist.res.kind = "DistributionError"

\* A manual list that passed every other validation was rejected for a
\* repeated reviewer.
C19_Witness ==
    /\ dist.pc = "done" /\ ~dist.req.automatic_mode
    /\ dist.res.kind = "DistributionError"
    /\ dist.res.reason = "duplicate_reviewer"
    /\ \E i, j \in 1..Len(dist.req.lista_assegnazioni) :
          /\ i # j
          /\ dist.req.lista_assegnazioni[i].reviewer =
               dist.req.lista_assegnazioni[j].reviewer

OriginalSubs ==
    LET reviewers == SortedSeq(SeenStudents)
    IN [i \in 1..Len(reviewers) |-> OwnSubmission(reviewers[i])]

\* subs_perm after the shuffle loop, for the random choices rnd.
ShuffledSubs(rnd) == Shuffle(OriginalSubs, Len(OriginalSubs), rnd)

\* C28: rotation fallback soundness. For every automatic request over n >= 2
\* delivering students and every outcome of the random choices, if the
\* shuffled list has a position equal to the original list, the list rotated
\* by one position has none.
C28_RotationSound ==
    (dist.pc = "done" /\ dist.req.automatic_mode /\ Cardinality(SeenStudents) >= 2) =>
        \A rnd \in RandomChoices :
            HasFixedPoint(ShuffledSubs(rnd), OriginalSubs) =>
                ~HasFixedPoint(RotateOne(ShuffledSubs(rnd)), OriginalSubs)

\* The position of the value v in the sequence q of distinct values.
PositionOf(q, v) == CHOOSE j \in 1..Len(q) : q[j] = v

\* The positions reached from position i in at most steps moves, each move
\* going from a position to the original position of the value it now holds.
RECURSIVE OrbitOf(_, _, _, _)
OrbitOf(q, subs, i, steps) ==
    IF steps = 0 THEN {}
    ELSE {i} \cup OrbitOf(q, subs, PositionOf(subs, q[i]), steps - 1)

\* q is a rearrangement of subs that moves its positions in one cycle.
IsSingleCycle(q, subs) ==
    /\ Len(q) = Len(subs)
    /\ Range(q) = Range(subs)
    /\ OrbitOf(q, subs, 1, Len(subs)) = 1..Len(subs)

\* C29: for n >= 2 students with pairwise distinct submission ids the shuffle
\* loop yields, for every outcome of the random choices, a permutation that is
\* a single n-cycle with no fixed point; the rotation is not taken and the
\* returned list gives every delivered submission to exactly one reviewer.
C29_SattoloSingleCycle ==
    (/\ dist.pc = "done" /\ dist.req.automatic_mode
     /\ Cardinality(SeenStudents) >= 2
     /\ Cardinality(SubmissionIdsOf(SeenSubmissions)) = Cardinality(SeenStudents)) =>
        /\ \A rnd \in RandomChoices :
              /\ IsSingleCycle(ShuffledSubs(rnd), OriginalSubs)
              /\ ~HasFixedPoint(ShuffledSubs(rnd), OriginalSubs)
        /\ dist.res.kind = "ok"
        /\ ~dist.res.rotated
        /\ Len(dist.res.list) = Cardinality(SeenStudents)
        /\ {dist.res.list[i].submissionId : i \in 1..Len(dist.res.list)}
             = SubmissionIdsOf(SeenSubmissions)

\* An automatic list over three students with three distinct submission ids
\* was returned without the rotation.
C29_Witness ==
    /\ dist.pc = "done" /\ dist.req.automatic_mode
    /\ Cardinality(SeenStudents) = 3
    /\ Cardinality(SubmissionIdsOf(SeenSubmissions)) = 3
    /\ dist.res.kind = "ok" /\ ~dist.res.rotated

----------------------------------------------------------------------------
(* Claims about the review ledger                                          *)

\* The role, a single value or a collection of values, includes r.
RoleIncludes(role, r) ==
    IF role.kind = "str" THEN role.val = r ELSE r \in role.items

RequiredRole(op) ==
    IF op \in {"start_process", "list_by_assignment_for_teacher"}
    THEN "teacher" ELSE "student"

\* The positions of the list that hold the pair of review r.
PairPositions(lista, r) ==
    {i \in 1..Len(lista) :
        lista[i].reviewer = r.reviewerId /\ lista[i].submissionId = r.submissionId}

\* C7: start_process by a teacher with N validated pairs and a rubric of K
\* criteria creates exactly N reviews, one per pair, each pending and with one
\* valutazione entry per rubric criterion, all with punteggio -1.
C7_StartCreatesOnePerPair ==
    [][(resp'.op = "start_process" /\ RoleIncludes(resp'.caller.role, "teacher")) =>
          LET created == reviews' \ reviews
              lista == resp'.lista
              rubrica == resp'.rubrica
          IN /\ Cardinality(created) = Len(lista)
             /\ \A i \in 1..Len(lista) :
                   \E r \in created : i \in PairPositions(lista, r)
             /\ \A r \in created :
                   /\ Cardinality({x \in created : PairPositions(lista, x) =
                                                     PairPositions(lista, r)})
                        = Cardinality(PairPositions(lista, r))
                   /\ r.stato = "pending"
                   /\ Len(r.valutazione) = Len(rubrica)
                   /\ \A j \in 1..Len(rubrica) :
                         r.valutazione[j] = [criterio |-> rubrica[j], punteggio |-> -1]
      ]_vars

\* C8: every successful start_process generates a fresh process identifier,
\* stores it as processId on every review it creates and returns it.
C8_FreshProcessId ==
    [][(resp'.op = "start_process" /\ resp'.kind = "ok") =>
          /\ \A r \in reviews' \ reviews : r.processId = resp'.retId
          /\ \A r \in reviews : r.processId # resp'.retId
      ]_vars

\* C9: role gating. An operation whose caller's role does not include the
\* required role (teacher for start_process and
\* list_by_assignment_for_teacher, student for the others) fails with
\* PermissionError and leaves the review store unchanged.
C9_RoleGating ==
    [][(resp'.op # "none" /\ ~RoleIncludes(resp'.caller.role, RequiredRole(resp'.op))) =>
          (resp'.kind = "PermissionError" /\ reviews' = reviews)
      ]_vars

\* A caller without the student role was refused a submit_review for a pending
\* review assigned to their user id.
C9_Witness ==
    /\ resp.op = "submit_review" /\ resp.kind = "PermissionError"
    /\ ~RoleIncludes(resp.caller.role, "student")
    /\ \E r \in reviews :
          /\ r.reviewId = resp.reviewId /\ r.reviewerId = resp.caller.user_id
          /\ r.stato = "pending"

\* C10: submit_review by a student who does not own the review, or for a
\* reviewId that does not exist, returns False and leaves every stored review
\* unchanged.
C10_SubmitNotOwned ==
    [][(/\ resp'.op = "submit_review"
        /\ RoleIncludes(resp'.caller.role, "student")
        /\ ~\E r \in reviews : /\ r.reviewId = resp'.reviewId
                               /\ r.reviewerId = resp'.caller.user_id) =>
          (resp'.kind = "ok" /\ resp'.retBool = FALSE /\ reviews' = reviews)
      ]_vars

\* A student got False for a pending review that is assigned to another student.
C10_Witness ==
    /\ resp.op = "submit_review" /\ resp.kind = "ok" /\ resp.retBool = FALSE
    /\ RoleIncludes(resp.caller.role, "student")
    /\ \E r \in reviews :
          /\ r.reviewId = resp.reviewId /\ r.reviewerId # resp.caller.user_id
          /\ r.stato = "pending"

\* The stored review that a submit_review or get_my_review call names and that
\* is assigned to its caller.
OwnedTarget(c, call) ==
    {r \in c : r.reviewId = call.reviewId /\ r.reviewerId = call.caller.user_id}

\* C11: submit_review by the owning student returns True, sets that review's
\* valutazione to exactly the submitted scores and its stato to complete and
\* leaves every other review unchanged; and get_my_review by the owner returns
\* exactly the stored review, so the one that follows the submit returns those
\* scores with stato complete.
C11_SubmitByOwner ==
    [][/\ (/\ resp'.op = "submit_review"
           /\ RoleIncludes(resp'.caller.role, "student")
           /\ OwnedTarget(reviews, resp') # {}) =>
             /\ resp'.kind = "ok" /\ resp'.retBool = TRUE
             /\ reviews' =
                  (reviews \ OwnedTarget(reviews, resp')) \cup
                  {[r EXCEPT !.valutazione = resp'.valutazione,
                             !.stato = "complete"] : r \in OwnedTarget(reviews, resp')}
       /\ (/\ resp'.op = "get_my_review"
           /\ RoleIncludes(resp'.caller.role, "student")
           /\ OwnedTarget(reviews, resp') # {}) =>
             /\ resp'.kind = "ok"
             /\ resp'.retDocs = {ToReview(r) : r \in OwnedTarget(reviews, resp')}
             /\ reviews' = reviews
      ]_vars

\* The owner reads back a review that holds the two submitted scores and is
\* complete, while another review of the store is still pending.
C11_Witness ==
    /\ resp.op = "get_my_review" /\ resp.kind = "ok"
    /\ \E d \in resp.retDocs :
          /\ d.reviewerId = resp.caller.user_id
          /\ d.stato = "complete"
          /\ d.valutazione = <<[criterio |-> "Chiarezza", punteggio |-> 8],
                               [criterio |-> "Correttezza", punteggio |-> 9]>>
    /\ \E r \in reviews : r.stato = "pending" /\ r.reviewId # resp.reviewId


\* C12: complete is terminal. In every step every stored review stays stored
\* under its reviewId, a complete review stays complete, and the only change
\* of a stato is from pending to complete.
C12_CompleteIsTerminal ==
    [][\A r \in reviews :
          \E q \in reviews' :
              /\ q.reviewId = r.reviewId
              /\ r.stato = "complete" => q.stato = "complete"
              /\ q.stato # r.stato => (r.stato = "pending" /\ q.stato = "complete")
      ]_vars

\* A submit_review succeeded while another review was already complete: both
\* are complete.
C12_Witness ==
    /\ resp.op = "submit_review" /\ resp.kind = "ok" /\ resp.retBool
    /\ \E r, q \in reviews :
          /\ r.reviewId = resp.reviewId /\ q.reviewId # r.reviewId
          /\ r.stato = "complete" /\ q.stato = "complete"


\* C13: a review is mutated exactly once. Once a review is complete, no step
\* (a further submit_review by its owner included) changes its valutazione.
C13_MutatedOnce ==
    [][\A r \in reviews :
          r.stato = "complete" =>
              \E q \in reviews' :
                  q.reviewId = r.reviewId /\ q.valutazione = r.valutazione
      ]_vars


\* C14: get_my_review returns a review only when it exists and its reviewerId
\* is the caller; for a student caller a reviewId owned by another student and
\* a reviewId that does not exist give the same result: no review and no
\* error, and the store is left as it is.
C14_GetMyReviewAccess ==
    [][(resp'.op = "get_my_review" /\ RoleIncludes(resp'.caller.role, "student")) =>
          /\ resp'.kind = "ok"
          /\ reviews' = reviews
          /\ \A d \in resp'.retDocs :
                /\ d.reviewId = resp'.reviewId
                /\ d.reviewerId = resp'.caller.user_id
                /\ \E r \in reviews : d = ToReview(r)
          /\ OwnedTarget(reviews, resp') = {} => resp'.retDocs = {}
      ]_vars

\* A student asked for a stored review that is assigned to another student
\* and got no review and no error.
C14_Witness ==
    /\ resp.op = "get_my_review" /\ resp.kind = "ok" /\ resp.retDocs = {}
    /\ RoleIncludes(resp.caller.role, "student")
    /\ \E r \in reviews :
          r.reviewId = resp.reviewId /\ r.reviewerId # resp.caller.user_id


\* C15: reviewId uniqueness. No two stored reviews share a reviewId, and every
\* bulk create of a start_process call draws one distinct fresh reviewId per
\* draft: the call succeeds and stores as many new reviewIds as it has drafts.
C15_ReviewIdUnique ==
    [][/\ \A r, q \in reviews' : r.reviewId = q.reviewId => r = q
       /\ (resp'.op = "start_process" /\ RoleIncludes(resp'.caller.role, "teacher")) =>
             /\ resp'.kind = "ok"
             /\ {r.reviewId : r \in reviews'} \cap {r.reviewId : r \in reviews}
                  = {r.reviewId : r \in reviews}
             /\ Cardinality({r.reviewId : r \in reviews'} \ {r.reviewId : r \in reviews})
                  = Len(resp'.lista)
      ]_vars


\* C16: no partial side effects on failure. A start_process call that fails
\* (PermissionError, or a failure inside the bulk create) leaves no review of
\* its batch in the store: the bulk create stores all its drafts or none.
C16_NoPartialSideEffects ==
    [][(resp'.op = "start_process" /\ resp'.kind # "ok") => reviews' = reviews]_vars


\* The criterio names of a valutazione, in order.
CriteriaOf(valutazione) == [i \in 1..Len(valutazione) |-> valutazione[i].criterio]

\* The valutazione has one entry for each name, and no other entry.
HasShape(valutazione, names) ==
    /\ Len(valutazione) = Len(names)
    /\ {valutazione[i].criterio : i \in 1..Len(valutazione)}
         = {names[i] : i \in 1..Len(names)}

\* C31: rubric shape invariant. Each stored review's valutazione has exactly
\* the criteria of the rubric its process was started with: a review enters
\* the store with the shape of the rubric of its start_process call, and no
\* step (a submit_review included) changes the criteria of a stored review.
C31_RubricShape ==
    [][\A d \in reviews' :
          IF \E o \in reviews : o.reviewId = d.reviewId
          THEN \A o \in reviews :
                  o.reviewId = d.reviewId =>
                      HasShape(d.valutazione, CriteriaOf(o.valutazione))
          ELSE /\ resp'.op = "start_process"
               /\ HasShape(d.valutazione, resp'.rubrica)
      ]_vars


\* C32: list_my_reviews by a student returns exactly the stored reviews whose
\* reviewerId is the caller's id, never a review assigned to another student,
\* and with a stato filter exactly those of them that have that stato. The
\* store does not change between the call and its response.
C32_ListMyReviewsExact ==
    (resp.op = "list_my_reviews" /\ RoleIncludes(resp.caller.role, "student")) =>
        /\ resp.kind = "ok"
        /\ \A d \in resp.retDocs :
              /\ d.reviewerId = resp.caller.user_id
              /\ resp.stato # "" => d.stato = resp.stato
              /\ \E r \in reviews : d = ToReview(r)
        /\ \A r \in reviews :
              (/\ r.reviewerId = resp.caller.user_id
               /\ resp.stato # "" => r.stato = resp.stato)
                  => ToReview(r) \in resp.retDocs

\* A student listed their pending reviews and got one, while the store also
\* holds a review assigned to another student.
C32_Witness ==
    /\ resp.op = "list_my_reviews" /\ resp.kind = "ok"
    /\ RoleIncludes(resp.caller.role, "student")
    /\ resp.stato = "pending"
    /\ resp.retDocs # {}
    /\ \E r \in reviews : r.reviewerId # resp.caller.user_id


----------------------------------------------------------------------------
(* Claims about the event ingestor                                         *)

HandlerEnded(m) == msgs[m].pc \in {"returned", "raised"}

SettleCalls(m) == {msgs[m].settles[i] : i \in 1..Len(msgs[m].settles)}

\* C21: a message whose body cannot be decoded is negatively acknowledged with
\* requeue=false under every setting of requeue_on_error: once its handler has
\* finished, a nack was issued for it, no nack for it asked for a requeue, and
\* the message was not delivered a second time.
C21_UndecodableNotRequeued ==
    \A m \in Messages :
        (HandlerEnded(m) /\ ~Decodes(msgs[m].body)) =>
            /\ \E s \in SettleCalls(m) : s.op = "nack"
            /\ \A s \in SettleCalls(m) : s.op = "nack" => ~s.requeue
            /\ msgs[m].deliveries <= 1


\* C22: per-message outcome. A decodable message whose store write succeeded,
\* as a creation or as an update, is acknowledged and never nacked; a message
\* whose store write failed is nacked with requeue equal to requeue_on_error;
\* the flag is false unless the consumer is constructed otherwise.
C22_PerMessageOutcome ==
    /\ ~DefaultRequeueOnError
    /\ \A m \in Messages :
          (HandlerEnded(m) /\ msgs[m].saved \in {"created", "updated"}) =>
              /\ \E s \in SettleCalls(m) : s.op = "ack"
              /\ \A s \in SettleCalls(m) : s.op = "ack"
    /\ \A m \in Messages :
          (HandlerEnded(m) /\ msgs[m].saved = "error") =>
              /\ \E s \in SettleCalls(m) : s.op = "nack"
              /\ \A s \in SettleCalls(m) :
                    s.op = "nack" /\ s.requeue = consumer.requeue_on_error


\* The handler of m met an undecodable body or a failed store write.
HandlingFailed(m) == ~Decodes(msgs[m].body) \/ msgs[m].saved = "error"

\* C30: a failure while handling one message affects only that message. The
\* handler of a message with an undecodable body or a failed store write never
\* ends by raising; the consumer, once subscribed, stays subscribed; and the
\* handler of every delivered message eventually returns with the message
\* acked or nacked.
C30_FailureContained ==
    /\ [](\A m \in Messages :
            (msgs[m].pc # "unsent" /\ HandlingFailed(m)) => msgs[m].pc # "raised")
    /\ [][consumer.consumer_tag => consumer'.consumer_tag]_vars
    /\ \A m \in Messages :
          (msgs[m].pc # "unsent") ~>
              (msgs[m].pc = "returned" /\ \E s \in SettleCalls(m) : s.ok)


\* C34: every message passed to _on_message is settled exactly once. When the
\* handler has ended, on whatever path (decode failure, store failure, failure
\* of the ack call, success), it has issued exactly one call of ack or nack
\* for the message: never both and never neither.
C34_SettledExactlyOnce ==
    \A m \in Messages : HandlerEnded(m) => Len(msgs[m].settles) = 1


\* C35: ack follows persistence. A message is acknowledged only after
\* save_message for its payload has completed successfully: whenever the
\* handler has issued ack for a message, its save has returned and the store
\* holds a record for the (assignmentId, studentId) of its payload.
C35_AckFollowsPersistence ==
    \A m \in Messages :
        (\E s \in SettleCalls(m) : s.op = "ack") =>
            /\ msgs[m].saved \in {"created", "updated"}
            /\ msgs[m].body.kind = "object"
            /\ \E d \in col :
                  KeyOf(d) = <<msgs[m].body.payload.assignmentId,
                               msgs[m].body.payload.studentId>>

\* The handler of a message has stored a new record, acked the message and
\* returned.
C35_Witness ==
    \E m \in Messages :
        /\ msgs[m].pc = "returned" /\ msgs[m].saved = "created"
        /\ msgs[m].settles = <<[op |-> "ack", requeue |-> FALSE, ok |-> TRUE]>>
        /\ \E d \in col : d.submissionId = msgs[m].body.payload.submissionId


\* The place of a position of stop in the order of the code.
StopRank(pc) ==
    CASE pc = "cancel" -> 1 [] pc = "channel_close" -> 2
      [] pc = "conn_close" -> 3 [] OTHER -> 4

StopRunning == boot.op = "stop" /\ boot.pc # "done"

\* C23: stop() cancels the subscription, then closes the channel, then closes
\* the connection; a step that raises does not keep the following steps from
\* running; and whatever the state stop was called in, once it has ended it
\* has returned, every handle is None and is_ready() is false.
C23_StopBestEffort ==
    /\ [](boot.op = "stop" =>
            \A i, j \in 1..Len(boot.log) :
                i < j => StopRank(boot.log[i].step) < StopRank(boot.log[j].step))
    /\ [][StopRunning =>
            /\ boot'.op = "stop"
            /\ StopRank(boot'.pc) = StopRank(boot.pc) + 1
            /\ StopStepDue(consumer, StopRank(boot.pc)) =>
                  /\ Len(boot'.log) = Len(boot.log) + 1
                  /\ boot'.log[Len(boot'.log)].step = boot.pc]_vars
    /\ []((boot.op = "stop" /\ boot.pc = "done") =>
            /\ boot.outcome = "returned"
            /\ ~IsReady(consumer)
            /\ consumer.conn = "none" /\ consumer.channel = "none"
            /\ ~consumer.exchange /\ ~consumer.queue /\ ~consumer.consumer_tag)

\* stop was called on a consuming consumer, each of its three steps raised,
\* and it has returned.
C23_Witness ==
    /\ boot.op = "stop" /\ boot.pc = "done"
    /\ Len(boot.log) = 3
    /\ \A i \in 1..3 : ~boot.log[i].ok


----------------------------------------------------------------------------
(* Claims about the report publisher                                       *)

\* The coroutine is inside the re-establishment of _ensure_ready or connect.
Reestablishing(t) ==
    ptasks[t].pc \in {"c_conn", "c_chan", "c_qos", "c_exch", "c_sleep",
                      "e_chan", "e_exch"}

\* C25: the re-establishment of the publisher is mutually exclusive: at most
\* one coroutine is re-establishing connection, channel or exchange at any
\* time, and the publisher never has more than one connection open.
C25_SingleReestablishment ==
    /\ Cardinality({t \in PubTasks : Reestablishing(t)}) <= 1
    /\ Cardinality(broker.connOpen) <= 1


\* The handles name an open connection, an open channel on it and an exchange
\* object declared on that channel.
Established ==
    /\ ConnUsable(broker, pub.conn)
    /\ ChanUsable(broker, pub.channel)
    /\ pub.exchange = pub.channel

\* C26: close() does not make a later publish fail. A publish that starts
\* after a close() has ended, whatever was in flight during that close, that
\* runs with no other coroutine beside it, is not cancelled and whose awaited
\* calls do not fail on their own account, ends having published, with
\* connection, channel and exchange established.
C26_PublishAfterClose ==
    \A t \in PubTasks :
        (/\ ptasks[t].op = "publish" /\ ptasks[t].pc = "done"
         /\ ptasks[t].outcome # "cancelled"
         /\ ptasks[t].afterClose /\ ptasks[t].solo /\ ~ptasks[t].faulted) =>
            /\ ptasks[t].outcome = "published"
            /\ Established

\* C27: close() is idempotent. A close that runs with no other coroutine
\* beside it, on a publisher in any state (never connected, connected, just
\* closed), raises nothing and leaves every handle absent.
C27_CloseIdempotent ==
    \A t \in PubTasks :
        (ptasks[t].op = "close" /\ ptasks[t].pc = "done" /\ ptasks[t].solo) =>
            /\ ptasks[t].outcome = "returned"
            /\ pub.conn = 0 /\ pub.channel = 0 /\ pub.exchange = 0
            /\ ~pub.temp_queue


\* The coroutine's _ensure_ready returns normally in this step: its
\* publish_review_report goes on to the publish call.
EnsureReadyReturns(t) ==
    /\ ptasks'[t].op = "publish"
    /\ ptasks[t].pc # "p_pub" /\ ptasks'[t].pc = "p_pub"

\* C36: whenever _ensure_ready returns normally, the cached connection and
\* channel are open and the cached exchange was declared on the channel that
\* is cached now, whatever the state it was called in (a connection that is
\* open with a channel that is closed included).
C36_EnsureReadyEstablishes ==
    [][\A t \in PubTasks : EnsureReadyReturns(t) => Established']_vars


----------------------------------------------------------------------------
(* Claims about the bounded retries of start and connect                   *)

AttemptsIn(log) == Cardinality({i \in 1..Len(log) : log[i].step = "attempt"})

\* The history of one retry loop that may make at most limit attempts:
\* attempts and sleeps alternate, starting with an attempt; no more than
\* limit attempts are made; nothing follows a successful attempt; a loop that
\* returned ended with a successful attempt; a loop that raised made exactly
\* limit attempts, all failed, and did not sleep after the last.
RetryHistoryOk(log, limit, ended, outcome) ==
    /\ \A i \in 1..Len(log) :
          log[i].step = (IF i % 2 = 1 THEN "attempt" ELSE "sleep")
    /\ AttemptsIn(log) <= limit
    /\ \A i \in 1..Len(log) :
          (log[i].step = "attempt" /\ log[i].ok) => i = Len(log)
    /\ (ended /\ outcome = "returned") =>
          (Len(log) > 0 /\ log[Len(log)].step = "attempt" /\ log[Len(log)].ok)
    /\ (ended /\ outcome = "raised") =>
          /\ AttemptsIn(log) = limit
          /\ log[Len(log)].step = "attempt"
          /\ \A i \in 1..Len(log) : log[i].step = "attempt" => ~log[i].ok
    /\ ended => outcome \in {"returned", "raised", "cancelled"}

\* Every retry loop in progress or ended, with the attempts allowed to it.
RetryLoopsOk(Limit(_)) ==
    /\ boot.op = "start" =>
          RetryHistoryOk(boot.log, Limit(boot.max_retries), boot.pc = "done",
                         boot.outcome)
    /\ \A t \in PubTasks :
          ptasks[t].op = "connect" =>
              RetryHistoryOk(ptasks[t].log, Limit(ptasks[t].max_retries),
                             ptasks[t].pc = "done", ptasks[t].outcome)

AsGiven(n) == n

AtLeastOne(n) == IF n < 1 THEN 1 ELSE n

\* C24: start(max_retries, delay) of the consumer and connect(max_retries,
\* delay) of the publisher make at most max_retries attempts, sleep between
\* two attempts, return at the first attempt that succeeds and raise the last
\* error after max_retries failed attempts.
C24_BoundedRetries == RetryLoopsOk(AsGiven)

\* C24 as the code has it: the attempts are at most max_retries when
\* max_retries >= 1 and exactly one attempt is made when max_retries <= 0,
\* the test of max_retries coming after the first attempt.
C24_BoundedRetriesFromOne == RetryLoopsOk(AtLeastOne)

\* start has raised after two failed attempts out of two, and connect has
\* returned at its second attempt.
C24_Witness ==
    /\ boot.op = "start" /\ boot.pc = "done" /\ boot.outcome = "raised"
    /\ boot.max_retries = 2 /\ AttemptsIn(boot.log) = 2
    /\ ptasks[MainTask].op = "connect" /\ ptasks[MainTask].pc = "done"
    /\ ptasks[MainTask].outcome = "returned"
    /\ AttemptsIn(ptasks[MainTask].log) = 2


====
